---- MODULE Spec2Model ----
(***************************************************************************)
(* flowmon: nftables counter rules.                                        *)
(*                                                                         *)
(*   - types (TcpFlagsFromByte, TcpFlagsToByte, Protocol)                  *)
(*   - nft/rules.go (marshalRule, unmarshalRule and the ruleUnmarshaler)   *)
(*   - nft/helpers.go (getOrCreateTable, getOrCreateChain)                 *)
(*   - nft/nft.go (Conn: New, Setup, ListRules, Cleanup)                   *)
(*                                                                         *)
(* The kernel side of the netlink connection (tables, chains, rules, the   *)
(* batch commit, list-and-reset of rule counters) is part of the state.    *)
(***************************************************************************)
EXTENDS Integers, Sequences, FiniteSets, TLC

(***************************************************************************)
(* Bounds of the model.                                                    *)
(***************************************************************************)
MaxLabelLen == 1
\* Operations one caller starts, when it is the only caller and when there are two.
MaxOps == 3
MaxConcOps == 3
\* Transport failures, matched packets, rules added by other programs.
MaxFaults == 1
MaxTraffic == 2
MaxForeign == 1
MaxExprs == 3

(***************************************************************************)
(* types: protocols and TCP flags.                                         *)
(***************************************************************************)
ProtocolTCP == 6
ProtocolUDP == 17
ProtocolICMP == 1
ProtocolICMPv6 == 58

TcpFlagFIN == 1
TcpFlagSYN == 2
TcpFlagRST == 4
TcpFlagPSH == 8
TcpFlagACK == 16
TcpFlagURG == 32
TcpFlagECE == 64
TcpFlagCWR == 128

\* Go's & and | on bytes.
RECURSIVE BitAnd(_, _)
BitAnd(a, b) ==
    IF a = 0 \/ b = 0 THEN 0
    ELSE ((a % 2) * (b % 2)) + 2 * BitAnd(a \div 2, b \div 2)

RECURSIVE BitOr(_, _)
BitOr(a, b) ==
    IF a = 0 THEN b
    ELSE IF b = 0 THEN a
    ELSE (IF a % 2 = 1 \/ b % 2 = 1 THEN 1 ELSE 0) + 2 * BitOr(a \div 2, b \div 2)

\* The order in which TcpFlagsFromByte walks the flags.
TcpFlagOrder ==
    << TcpFlagFIN, TcpFlagSYN, TcpFlagRST, TcpFlagPSH,
       TcpFlagACK, TcpFlagURG, TcpFlagECE, TcpFlagCWR >>

\* A TcpFlagsFromByte that looks at the four flags of the rule's mask only.
TcpFlagsFromByteMasked(b) ==
    SelectSeq(<< TcpFlagFIN, TcpFlagSYN, TcpFlagRST, TcpFlagACK >>,
              LAMBDA flag : BitAnd(b, flag) # 0)

TcpFlagsFromByte(b) ==
    SelectSeq(TcpFlagOrder, LAMBDA flag : BitAnd(b, flag) # 0)

RECURSIVE TcpFlagsToByte(_)
TcpFlagsToByte(flags) ==
    IF flags = <<>> THEN 0
    ELSE BitOr(TcpFlagsToByte(SubSeq(flags, 1, Len(flags) - 1)), flags[Len(flags)])

\* Protocol.AsSlice: the protocol number as one byte.
ProtocolAsSlice(p) == << p >>

(***************************************************************************)
(* netip.Addr as the rules use it: the zero Addr, a 4-byte or a 16-byte    *)
(* address.                                                                *)
(***************************************************************************)
NoAddr == [z |-> "invalid", b |-> <<>>]
IsValid(a) == a.z # "invalid"
Is6(a) == a.z = "v6"
AsSlice(a) == a.b
AddrFromSlice(b) ==
    IF Len(b) = 4 THEN [ok |-> TRUE, addr |-> [z |-> "v4", b |-> b]]
    ELSE IF Len(b) = 16 THEN [ok |-> TRUE, addr |-> [z |-> "v6", b |-> b]]
    ELSE [ok |-> FALSE, addr |-> NoAddr]

\* binaryutil.BigEndian
PutUint16(v) == << v \div 256, v % 256 >>
Uint16(d) == d[1] * 256 + d[2]

(***************************************************************************)
(* userdata: the rule comment is one type-length-value item, the string    *)
(* NUL-terminated.                                                         *)
(***************************************************************************)
TypeComment == 0

userdataAppend(udata, typ, data) == udata \o << typ, Len(data) % 256 >> \o data

userdataAppendString(udata, typ, str) == userdataAppend(udata, typ, str \o << 0 >>)

RECURSIVE userdataGet(_, _)
userdataGet(udata, styp) ==
    IF Len(udata) < 2 THEN [ok |-> FALSE, data |-> <<>>]
    ELSE LET typ == udata[1]
             length == udata[2]
         IN IF Len(udata) < 2 + length THEN [ok |-> FALSE, data |-> <<>>]
            ELSE IF styp = typ THEN [ok |-> TRUE, data |-> SubSeq(udata, 3, 2 + length)]
            ELSE userdataGet(SubSeq(udata, 3 + length, Len(udata)), styp)

RECURSIVE TrimRightNul(_)
TrimRightNul(data) ==
    IF data # <<>> /\ data[Len(data)] = 0
    THEN TrimRightNul(SubSeq(data, 1, Len(data) - 1))
    ELSE data

userdataGetString(udata, styp) ==
    LET got == userdataGet(udata, styp)
    IN IF got.ok THEN [ok |-> TRUE, value |-> TrimRightNul(got.data)]
       ELSE [ok |-> FALSE, value |-> <<>>]

(***************************************************************************)
(* Expressions of a rule (github.com/google/nftables/expr).                *)
(***************************************************************************)
PayloadBaseNetworkHeader == "network-header"
PayloadBaseTransportHeader == "transport-header"
MetaKeyL4PROTO == "l4proto"
CmpOpEq == "eq"

Payload(reg, base, offset, len) ==
    [type |-> "Payload", DestRegister |-> reg, Base |-> base, Offset |-> offset, Len |-> len]
Cmp(op, reg, data) ==
    [type |-> "Cmp", Op |-> op, Register |-> reg, Data |-> data]
Meta(key, reg) ==
    [type |-> "Meta", Key |-> key, Register |-> reg]
Bitwise(dreg, sreg, len, mask, xor) ==
    [type |-> "Bitwise", DestRegister |-> dreg, SourceRegister |-> sreg,
     Len |-> len, Mask |-> mask, Xor |-> xor]
Counter(packets, bytes) ==
    [type |-> "Counter", Packets |-> packets, Bytes |-> bytes]

\* types.Counter{}: the zero value of a counter specification.
ZeroCounter ==
    [Label |-> <<>>, SrcPort |-> 0, DstPort |-> 0, TcpFlags |-> <<>>, Protocol |-> 0,
     SrcAddr |-> NoAddr, DstAddr |-> NoAddr, Dir |-> "", Packets |-> 0, Bytes |-> 0]

\* A nil *types.Counter.
Nil == [nil |-> TRUE]

(***************************************************************************)
(* marshalRule: one counter specification to one rule.                     *)
(***************************************************************************)
marshalSrcAddr(counter) ==
    IF IsValid(counter.SrcAddr)
    THEN LET len == IF Is6(counter.SrcAddr) THEN 16 ELSE 4
             offset == IF Is6(counter.SrcAddr) THEN 8 ELSE 12
         IN << Payload(1, PayloadBaseNetworkHeader, offset, len),
               Cmp(CmpOpEq, 1, AsSlice(counter.SrcAddr)) >>
    ELSE <<>>

\* A destination-address predicate that keeps the IPv4 offset for IPv6.
marshalDstAddrOneOffset(counter) ==
    IF IsValid(counter.DstAddr)
    THEN LET len == IF Is6(counter.DstAddr) THEN 16 ELSE 4
         IN << Payload(1, PayloadBaseNetworkHeader, 16, len),
               Cmp(CmpOpEq, 1, AsSlice(counter.DstAddr)) >>
    ELSE <<>>

marshalDstAddr(counter) ==
    IF IsValid(counter.DstAddr)
    THEN LET len == IF Is6(counter.DstAddr) THEN 16 ELSE 4
             offset == IF Is6(counter.DstAddr) THEN 24 ELSE 16
         IN << Payload(1, PayloadBaseNetworkHeader, offset, len),
               Cmp(CmpOpEq, 1, AsSlice(counter.DstAddr)) >>
    ELSE <<>>

\* A protocol predicate that loads into register 2 and compares register 1.
marshalProtocolRegister2(counter) ==
    IF counter.Protocol > 0
    THEN << Meta(MetaKeyL4PROTO, 2),
            Cmp(CmpOpEq, 1, ProtocolAsSlice(counter.Protocol)) >>
    ELSE <<>>

marshalProtocol(counter) ==
    IF counter.Protocol > 0
    THEN << Meta(MetaKeyL4PROTO, 1),
            Cmp(CmpOpEq, 1, ProtocolAsSlice(counter.Protocol)) >>
    ELSE <<>>

\* A source-port predicate emitted for any protocol.
marshalSrcPortUngated(counter) ==
    IF counter.SrcPort # 0
    THEN << Payload(1, PayloadBaseTransportHeader, 0, 2),
            Cmp(CmpOpEq, 1, PutUint16(counter.SrcPort)) >>
    ELSE <<>>

marshalSrcPort(counter) ==
    IF counter.SrcPort # 0 /\ (counter.Protocol = ProtocolTCP \/ counter.Protocol = ProtocolUDP)
    THEN << Payload(1, PayloadBaseTransportHeader, 0, 2),
            Cmp(CmpOpEq, 1, PutUint16(counter.SrcPort)) >>
    ELSE <<>>

marshalDstPort(counter) ==
    IF counter.DstPort # 0 /\ (counter.Protocol = ProtocolTCP \/ counter.Protocol = ProtocolUDP)
    THEN << Payload(1, PayloadBaseTransportHeader, 2, 2),
            Cmp(CmpOpEq, 1, PutUint16(counter.DstPort)) >>
    ELSE <<>>

\* A flags predicate whose mask is the requested flags.
marshalTcpFlagsRequestedMask(counter) ==
    IF Len(counter.TcpFlags) > 0 /\ counter.Protocol = ProtocolTCP
    THEN LET match == TcpFlagsToByte(counter.TcpFlags)
         IN << Payload(1, PayloadBaseTransportHeader, 13, 1),
               Bitwise(1, 1, 1, << match >>, << 0 >>),
               Cmp(CmpOpEq, 1, << match >>) >>
    ELSE <<>>

marshalTcpFlags(counter) ==
    IF Len(counter.TcpFlags) > 0 /\ counter.Protocol = ProtocolTCP
    THEN LET match == TcpFlagsToByte(counter.TcpFlags)
             mask == TcpFlagsToByte(<< TcpFlagFIN, TcpFlagSYN, TcpFlagRST, TcpFlagACK >>)
         IN << Payload(1, PayloadBaseTransportHeader, 13, 1),
               Bitwise(1, 1, 1, << mask >>, << 0 >>),
               Cmp(CmpOpEq, 1, << match >>) >>
    ELSE <<>>

\* A marshalRule whose Counter starts from the counts of the specification.
marshalRuleCarriesCounts(table, chain, counter) ==
    [Table |-> table,
     Chain |-> chain,
     Exprs |-> marshalSrcAddr(counter) \o marshalDstAddr(counter) \o marshalProtocol(counter)
               \o marshalSrcPort(counter) \o marshalDstPort(counter) \o marshalTcpFlags(counter)
               \o << Counter(counter.Packets, counter.Bytes) >>,
     UserData |-> userdataAppendString(<<>>, TypeComment, counter.Label)]

\* A marshalRule that emits the port predicates before the protocol predicate.
marshalRulePortsFirst(table, chain, counter) ==
    [Table |-> table,
     Chain |-> chain,
     Exprs |-> marshalSrcAddr(counter) \o marshalDstAddr(counter) \o marshalSrcPort(counter)
               \o marshalDstPort(counter) \o marshalProtocol(counter) \o marshalTcpFlags(counter)
               \o << Counter(0, 0) >>,
     UserData |-> userdataAppendString(<<>>, TypeComment, counter.Label)]

\* A marshalRule whose Counter starts from the bytes of the specification.
marshalRuleKeepsBytes(table, chain, counter) ==
    [Table |-> table,
     Chain |-> chain,
     Exprs |-> marshalSrcAddr(counter) \o marshalDstAddr(counter) \o marshalProtocol(counter)
               \o marshalSrcPort(counter) \o marshalDstPort(counter) \o marshalTcpFlags(counter)
               \o << Counter(0, counter.Bytes) >>,
     UserData |-> userdataAppendString(<<>>, TypeComment, counter.Label)]

marshalRule(table, chain, counter) ==
    [Table |-> table,
     Chain |-> chain,
     Exprs |-> marshalSrcAddr(counter) \o marshalDstAddr(counter) \o marshalProtocol(counter)
               \o marshalSrcPort(counter) \o marshalDstPort(counter) \o marshalTcpFlags(counter)
               \o << Counter(0, 0) >>,
     UserData |-> userdataAppendString(<<>>, TypeComment, counter.Label)]

(***************************************************************************)
(* unmarshalRule: the ruleUnmarshaler r is [counter, regs, hasCounterExpr] *)
(* plus the error of the pass ("" is nil).                                 *)
(***************************************************************************)
regProtocol == "protocol"
regSrcPort == "src_port"
regDstPort == "dst_port"
regTcpFlag == "tcp_flag"
regSrcAddr == "src_addr"
regDstAddr == "dst_addr"

\* r.regs[reg] = t
SetReg(r, reg, t) ==
    [r EXCEPT !.regs = [x \in (DOMAIN r.regs) \cup {reg} |->
                            IF x = reg THEN t ELSE r.regs[x]]]

Fail(r, msg) == [r EXCEPT !.err = msg]

unmarshalMeta(r, e) ==
    IF e.Key = MetaKeyL4PROTO THEN SetReg(r, e.Register, regProtocol)
    ELSE Fail(r, "unsupported meta key")

unmarshalPayload(r, e) ==
    CASE e.Base = PayloadBaseTransportHeader /\ e.Offset = 0 /\ e.Len = 2 ->
            SetReg(r, e.DestRegister, regSrcPort)
      [] e.Base = PayloadBaseTransportHeader /\ e.Offset = 2 /\ e.Len = 2 ->
            SetReg(r, e.DestRegister, regDstPort)
      [] e.Base = PayloadBaseTransportHeader /\ e.Offset = 13 /\ e.Len = 1 ->
            SetReg(r, e.DestRegister, regTcpFlag)
      [] e.Base = PayloadBaseNetworkHeader /\ e.Offset = 12 /\ e.Len = 4 ->
            SetReg(r, e.DestRegister, regSrcAddr)
      [] e.Base = PayloadBaseNetworkHeader /\ e.Offset = 16 /\ e.Len = 4 ->
            SetReg(r, e.DestRegister, regDstAddr)
      [] e.Base = PayloadBaseNetworkHeader /\ e.Offset = 8 /\ e.Len = 16 ->
            SetReg(r, e.DestRegister, regSrcAddr)
      [] e.Base = PayloadBaseNetworkHeader /\ e.Offset = 24 /\ e.Len = 16 ->
            SetReg(r, e.DestRegister, regDstAddr)
      [] OTHER -> Fail(r, "unsupported payload")

\* unmarshalCmp with the destination port stored as the source port.
unmarshalCmpBadDstPort(r, e) ==
    IF e.Register \notin DOMAIN r.regs THEN Fail(r, "unknown register")
    ELSE LET regType == r.regs[e.Register]
         IN CASE regType = regProtocol ->
                    IF Len(e.Data) # 1 THEN Fail(r, "invalid protocol length")
                    ELSE [r EXCEPT !.counter.Protocol = e.Data[1]]
              [] regType \in {regSrcPort, regDstPort} ->
                    IF Len(e.Data) # 2 THEN Fail(r, "invalid port length")
                    ELSE [r EXCEPT !.counter.SrcPort = Uint16(e.Data)]
              [] regType \in {regSrcAddr, regDstAddr} ->
                    IF Len(e.Data) # 4 /\ Len(e.Data) # 16 THEN Fail(r, "invalid address length")
                    ELSE LET a == AddrFromSlice(e.Data)
                         IN IF ~a.ok THEN Fail(r, "invalid address")
                            ELSE IF regType = regSrcAddr
                                 THEN [r EXCEPT !.counter.SrcAddr = a.addr]
                                 ELSE [r EXCEPT !.counter.DstAddr = a.addr]
              [] regType = regTcpFlag ->
                    IF Len(e.Data) # 1 THEN Fail(r, "invalid flag length")
                    ELSE [r EXCEPT !.counter.TcpFlags = TcpFlagsFromByte(e.Data[1])]
              [] OTHER -> Fail(r, "unknown register type")

\* An unmarshalCmp that passes over a Cmp on a register nothing loaded.
unmarshalCmpSkipsUnknown(r, e) ==
    IF e.Register \notin DOMAIN r.regs THEN r
    ELSE LET regType == r.regs[e.Register]
         IN CASE regType = regProtocol ->
                    IF Len(e.Data) # 1 THEN Fail(r, "invalid protocol length")
                    ELSE [r EXCEPT !.counter.Protocol = e.Data[1]]
              [] regType = regSrcPort ->
                    IF Len(e.Data) # 2 THEN Fail(r, "invalid port length")
                    ELSE [r EXCEPT !.counter.SrcPort = Uint16(e.Data)]
              [] regType = regDstPort ->
                    IF Len(e.Data) # 2 THEN Fail(r, "invalid port length")
                    ELSE [r EXCEPT !.counter.DstPort = Uint16(e.Data)]
              [] regType \in {regSrcAddr, regDstAddr} ->
                    IF Len(e.Data) # 4 /\ Len(e.Data) # 16 THEN Fail(r, "invalid address length")
                    ELSE LET a == AddrFromSlice(e.Data)
                         IN IF ~a.ok THEN Fail(r, "invalid address")
                            ELSE IF regType = regSrcAddr
                                 THEN [r EXCEPT !.counter.SrcAddr = a.addr]
                                 ELSE [r EXCEPT !.counter.DstAddr = a.addr]
              [] regType = regTcpFlag ->
                    IF Len(e.Data) # 1 THEN Fail(r, "invalid flag length")
                    ELSE [r EXCEPT !.counter.TcpFlags = TcpFlagsFromByte(e.Data[1])]
              [] OTHER -> Fail(r, "unknown register type")

\* An unmarshalCmp that stores a compared destination port as the source port.
unmarshalCmpDstPortAsSrc(r, e) ==
    IF e.Register \notin DOMAIN r.regs THEN Fail(r, "unknown register")
    ELSE LET regType == r.regs[e.Register]
         IN CASE regType = regProtocol ->
                    IF Len(e.Data) # 1 THEN Fail(r, "invalid protocol length")
                    ELSE [r EXCEPT !.counter.Protocol = e.Data[1]]
              [] regType = regSrcPort ->
                    IF Len(e.Data) # 2 THEN Fail(r, "invalid port length")
                    ELSE [r EXCEPT !.counter.SrcPort = Uint16(e.Data)]
              [] regType = regDstPort ->
                    IF Len(e.Data) # 2 THEN Fail(r, "invalid port length")
                    ELSE [r EXCEPT !.counter.SrcPort = Uint16(e.Data)]
              [] regType \in {regSrcAddr, regDstAddr} ->
                    IF Len(e.Data) # 4 /\ Len(e.Data) # 16 THEN Fail(r, "invalid address length")
                    ELSE LET a == AddrFromSlice(e.Data)
                         IN IF ~a.ok THEN Fail(r, "invalid address")
                            ELSE IF regType = regSrcAddr
                                 THEN [r EXCEPT !.counter.SrcAddr = a.addr]
                                 ELSE [r EXCEPT !.counter.DstAddr = a.addr]
              [] regType = regTcpFlag ->
                    IF Len(e.Data) # 1 THEN Fail(r, "invalid flag length")
                    ELSE [r EXCEPT !.counter.TcpFlags = TcpFlagsFromByte(e.Data[1])]
              [] OTHER -> Fail(r, "unknown register type")

\* An unmarshalCmp that takes the first byte as the protocol whatever the length.
unmarshalCmpAnyProtocolLength(r, e) ==
    IF e.Register \notin DOMAIN r.regs THEN Fail(r, "unknown register")
    ELSE LET regType == r.regs[e.Register]
         IN CASE regType = regProtocol ->
                    IF Len(e.Data) < 1 THEN Fail(r, "invalid protocol length")
                    ELSE [r EXCEPT !.counter.Protocol = e.Data[1]]
              [] regType = regSrcPort ->
                    IF Len(e.Data) # 2 THEN Fail(r, "invalid port length")
                    ELSE [r EXCEPT !.counter.SrcPort = Uint16(e.Data)]
              [] regType = regDstPort ->
                    IF Len(e.Data) # 2 THEN Fail(r, "invalid port length")
                    ELSE [r EXCEPT !.counter.DstPort = Uint16(e.Data)]
              [] regType \in {regSrcAddr, regDstAddr} ->
                    IF Len(e.Data) # 4 /\ Len(e.Data) # 16 THEN Fail(r, "invalid address length")
                    ELSE LET a == AddrFromSlice(e.Data)
                         IN IF ~a.ok THEN Fail(r, "invalid address")
                            ELSE IF regType = regSrcAddr
                                 THEN [r EXCEPT !.counter.SrcAddr = a.addr]
                                 ELSE [r EXCEPT !.counter.DstAddr = a.addr]
              [] regType = regTcpFlag ->
                    IF Len(e.Data) # 1 THEN Fail(r, "invalid flag length")
                    ELSE [r EXCEPT !.counter.TcpFlags = TcpFlagsFromByte(e.Data[1])]
              [] OTHER -> Fail(r, "unknown register type")

unmarshalCmp(r, e) ==
    IF e.Register \notin DOMAIN r.regs THEN Fail(r, "unknown register")
    ELSE LET regType == r.regs[e.Register]
         IN CASE regType = regProtocol ->
                    IF Len(e.Data) # 1 THEN Fail(r, "invalid protocol length")
                    ELSE [r EXCEPT !.counter.Protocol = e.Data[1]]
              [] regType = regSrcPort ->
                    IF Len(e.Data) # 2 THEN Fail(r, "invalid port length")
                    ELSE [r EXCEPT !.counter.SrcPort = Uint16(e.Data)]
              [] regType = regDstPort ->
                    IF Len(e.Data) # 2 THEN Fail(r, "invalid port length")
                    ELSE [r EXCEPT !.counter.DstPort = Uint16(e.Data)]
              [] regType \in {regSrcAddr, regDstAddr} ->
                    IF Len(e.Data) # 4 /\ Len(e.Data) # 16 THEN Fail(r, "invalid address length")
                    ELSE LET a == AddrFromSlice(e.Data)
                         IN IF ~a.ok THEN Fail(r, "invalid address")
                            ELSE IF regType = regSrcAddr
                                 THEN [r EXCEPT !.counter.SrcAddr = a.addr]
                                 ELSE [r EXCEPT !.counter.DstAddr = a.addr]
              [] regType = regTcpFlag ->
                    IF Len(e.Data) # 1 THEN Fail(r, "invalid flag length")
                    ELSE [r EXCEPT !.counter.TcpFlags = TcpFlagsFromByte(e.Data[1])]
              [] OTHER -> Fail(r, "unknown register type")

unmarshalCounter(r, e) ==
    [r EXCEPT !.hasCounterExpr = TRUE,
              !.counter.Packets = e.Packets,
              !.counter.Bytes = e.Bytes]

unmarshalExpr(r, e) ==
    CASE e.type = "Meta" -> unmarshalMeta(r, e)
      [] e.type = "Payload" -> unmarshalPayload(r, e)
      [] e.type = "Cmp" -> unmarshalCmp(r, e)
      [] e.type = "Counter" -> unmarshalCounter(r, e)
      [] e.type = "Bitwise" -> r
      [] OTHER -> Fail(r, "unknown expression type")

\* The loop of unmarshalRule over rule.Exprs; it returns at the first error.
RECURSIVE unmarshalExprs(_, _)
unmarshalExprs(r, exprs) ==
    IF exprs = <<>> THEN r
    ELSE LET r2 == unmarshalExpr(r, Head(exprs))
         IN IF r2.err # "" THEN r2 ELSE unmarshalExprs(r2, Tail(exprs))

\* An unmarshalRule that does not ask whether a Counter was seen.
unmarshalRuleNoCounterCheck(rule) ==
    LET parser == unmarshalExprs([counter |-> ZeroCounter, regs |-> << >>,
                                  hasCounterExpr |-> FALSE, err |-> ""], rule.Exprs)
        name == userdataGetString(rule.UserData, TypeComment)
    IN IF parser.err # "" THEN [counter |-> Nil, err |-> parser.err]
       ELSE IF ~name.ok THEN [counter |-> Nil, err |-> "rule has no comment"]
       ELSE [counter |-> [parser.counter EXCEPT !.Label = name.value], err |-> ""]

\* An unmarshalRule that takes a rule without a comment as one with an empty label.
unmarshalRuleNoCommentCheck(rule) ==
    LET parser == unmarshalExprs([counter |-> ZeroCounter, regs |-> << >>,
                                  hasCounterExpr |-> FALSE, err |-> ""], rule.Exprs)
        name == userdataGetString(rule.UserData, TypeComment)
    IN IF parser.err # "" THEN [counter |-> Nil, err |-> parser.err]
       ELSE IF ~parser.hasCounterExpr THEN [counter |-> Nil, err |-> "rule has no counter"]
       ELSE [counter |-> [parser.counter EXCEPT !.Label = name.value], err |-> ""]

unmarshalRule(rule) ==
    LET parser == unmarshalExprs([counter |-> ZeroCounter, regs |-> << >>,
                                  hasCounterExpr |-> FALSE, err |-> ""], rule.Exprs)
        name == userdataGetString(rule.UserData, TypeComment)
    IN IF parser.err # "" THEN [counter |-> Nil, err |-> parser.err]
       ELSE IF ~parser.hasCounterExpr THEN [counter |-> Nil, err |-> "rule has no counter"]
       ELSE IF ~name.ok THEN [counter |-> Nil, err |-> "rule has no comment"]
       ELSE [counter |-> [parser.counter EXCEPT !.Label = name.value], err |-> ""]

(***************************************************************************)
(* The kernel's nftables state as this program sees it: whether the        *)
(* configured table exists and, per chain name, the chain's hook, priority *)
(* and rules.  A batch of staged messages is applied in order, all or      *)
(* none.                                                                   *)
(***************************************************************************)
NoKernel == [table |-> FALSE, chains |-> << >>]

HasChain(k, name) == k.table /\ name \in DOMAIN k.chains

SetChain(k, name, c) ==
    [k EXCEPT !.chains = [x \in (DOMAIN k.chains) \cup {name} |->
                              IF x = name THEN c ELSE k.chains[x]]]

DropChain(k, name) ==
    [k EXCEPT !.chains = [x \in (DOMAIN k.chains) \ {name} |-> k.chains[x]]]

\* One message of a batch: [ok, k].
ApplyMsg(k, m) ==
    CASE m.op = "AddTable" ->
            [ok |-> TRUE, k |-> [k EXCEPT !.table = TRUE]]
      [] m.op = "FlushTable" ->
            [ok |-> k.table,
             k |-> [k EXCEPT !.chains = [x \in DOMAIN k.chains |->
                                            [k.chains[x] EXCEPT !.Rules = << >>]]]]
      [] m.op = "DelTable" ->
            [ok |-> k.table, k |-> NoKernel]
      [] m.op = "FlushChain" ->
            IF HasChain(k, m.chain)
            THEN [ok |-> TRUE, k |-> SetChain(k, m.chain, [k.chains[m.chain] EXCEPT !.Rules = << >>])]
            ELSE [ok |-> FALSE, k |-> k]
      [] m.op = "DelChain" ->
            IF HasChain(k, m.chain) /\ k.chains[m.chain].Rules = << >>
            THEN [ok |-> TRUE, k |-> DropChain(k, m.chain)]
            ELSE [ok |-> FALSE, k |-> k]
      [] m.op = "AddChain" ->
            IF ~k.table THEN [ok |-> FALSE, k |-> k]
            ELSE IF m.chain.Name \in DOMAIN k.chains
                 THEN [ok |-> k.chains[m.chain.Name].Hooknum = m.chain.Hooknum
                              /\ k.chains[m.chain.Name].Priority = m.chain.Priority,
                       k |-> k]
                 ELSE [ok |-> TRUE,
                       k |-> SetChain(k, m.chain.Name,
                                      [Hooknum |-> m.chain.Hooknum,
                                       Priority |-> m.chain.Priority,
                                       Rules |-> << >>])]
      [] m.op = "AddRule" ->
            IF HasChain(k, m.rule.Chain)
            THEN [ok |-> TRUE,
                  k |-> SetChain(k, m.rule.Chain,
                                 [k.chains[m.rule.Chain] EXCEPT
                                      !.Rules = Append(@, [Exprs |-> m.rule.Exprs,
                                                           UserData |-> m.rule.UserData])])]
            ELSE [ok |-> FALSE, k |-> k]

RECURSIVE ApplyBatch(_, _)
ApplyBatch(k, msgs) ==
    IF msgs = << >> THEN [ok |-> TRUE, k |-> k]
    ELSE LET r == ApplyMsg(k, Head(msgs))
         IN IF r.ok THEN ApplyBatch(r.k, Tail(msgs)) ELSE [ok |-> FALSE, k |-> k]

(***************************************************************************)
(* Errors: nil is NoErr; an error names the failing call and its cause.    *)
(***************************************************************************)
NoErr == [where |-> "", cause |-> ""]
Err(where, cause) == [where |-> where, cause |-> cause]
ENOENT == "ENOENT"
EIO == "EIO"

(***************************************************************************)
(* The transport (nftables.Conn).  A lookup is one round trip: it answers  *)
(* from the kernel, or fails with a transport error when fault holds.      *)
(***************************************************************************)
ListTableOfFamily(k, fault) ==
    IF fault THEN [found |-> FALSE, err |-> EIO]
    ELSE IF k.table THEN [found |-> TRUE, err |-> ""]
    ELSE [found |-> FALSE, err |-> ENOENT]

ListChain(k, name, fault) ==
    IF fault THEN [found |-> FALSE, err |-> EIO]
    ELSE IF HasChain(k, name) THEN [found |-> TRUE, err |-> ""]
    ELSE [found |-> FALSE, err |-> ENOENT]

ZeroCounters(rule) ==
    [rule EXCEPT !.Exprs = [i \in 1..Len(rule.Exprs) |->
                               IF rule.Exprs[i].type = "Counter"
                               THEN Counter(0, 0) ELSE rule.Exprs[i]]]

\* A read of the rules that leaves their counters as they are.
ResetRulesNoReset(k, name, fault) ==
    IF fault THEN [rules |-> << >>, err |-> EIO, k |-> k]
    ELSE [rules |-> k.chains[name].Rules, err |-> "", k |-> k]

\* A reset that returns the rules as they are after it: counters at zero.
ResetRulesReturnsReset(k, name, fault) ==
    IF fault THEN [rules |-> << >>, err |-> EIO, k |-> k]
    ELSE [rules |-> [i \in 1..Len(k.chains[name].Rules) |->
                        ZeroCounters(k.chains[name].Rules[i])],
          err |-> "",
          k |-> SetChain(k, name,
                         [k.chains[name] EXCEPT
                              !.Rules = [i \in 1..Len(@) |-> ZeroCounters(@[i])]])]

\* The rules of the chain as they are, and the kernel with their counters reset.
ResetRules(k, name, fault) ==
    IF fault THEN [rules |-> << >>, err |-> EIO, k |-> k]
    ELSE [rules |-> k.chains[name].Rules,
          err |-> "",
          k |-> SetChain(k, name,
                         [k.chains[name] EXCEPT
                              !.Rules = [i \in 1..Len(@) |-> ZeroCounters(@[i])]])]

\* A commit that, when it fails, has applied the first staged message.
FlushPartial(k, msgs, fault) ==
    IF msgs = << >> THEN [err |-> "", k |-> k]
    ELSE IF fault THEN [err |-> EIO, k |-> ApplyMsg(k, Head(msgs)).k]
    ELSE LET r == ApplyBatch(k, msgs)
         IN IF r.ok THEN [err |-> "", k |-> r.k] ELSE [err |-> ENOENT, k |-> k]

\* Conn.Flush: the staged messages as one batch; the staged list is emptied
\* whatever the outcome.
Flush(k, msgs, fault) ==
    IF msgs = << >> THEN [err |-> "", k |-> k]
    ELSE IF fault THEN [err |-> EIO, k |-> k]
    ELSE LET r == ApplyBatch(k, msgs)
         IN IF r.ok THEN [err |-> "", k |-> r.k] ELSE [err |-> ENOENT, k |-> k]

(***************************************************************************)
(* nft.Config and New: the zero value of a field selects its default.      *)
(***************************************************************************)
TableFamilyIPv4 == 2
TableFamilyIPv6 == 10

ZeroConfig ==
    [TableFamily |-> 0, TableName |-> "", InputChain |-> "", OutputChain |-> "",
     ChainPriority |-> 0]

\* A New that takes the chain priority as given.
NewPriorityAsGiven(config) ==
    LET c == IF config = Nil THEN ZeroConfig ELSE config
    IN [tableFamily |-> IF c.TableFamily = 0 THEN TableFamilyIPv4 ELSE c.TableFamily,
        tableName |-> IF c.TableName = "" THEN "flowmon" ELSE c.TableName,
        inputChain |-> IF c.InputChain = "" THEN "input" ELSE c.InputChain,
        outputChain |-> IF c.OutputChain = "" THEN "output" ELSE c.OutputChain,
        chainPriority |-> c.ChainPriority]

\* New: a nil Config is the zero Config; each zero field takes its default.
New(config) ==
    LET c == IF config = Nil THEN ZeroConfig ELSE config
    IN [tableFamily |-> IF c.TableFamily = 0 THEN TableFamilyIPv4 ELSE c.TableFamily,
        tableName |-> IF c.TableName = "" THEN "flowmon" ELSE c.TableName,
        inputChain |-> IF c.InputChain = "" THEN "input" ELSE c.InputChain,
        outputChain |-> IF c.OutputChain = "" THEN "output" ELSE c.OutputChain,
        chainPriority |-> IF c.ChainPriority = 0 THEN -300 ELSE c.ChainPriority]

ChainHookInput == "input-hook"
ChainHookOutput == "output-hook"

(***************************************************************************)
(* helpers.go: getOrCreateTable and getOrCreateChain stage messages on the *)
(* connection; they commit nothing.                                        *)
(***************************************************************************)
\* getOrCreateTable replacing a table that exists, as getOrCreateChain does a chain.
getOrCreateTableReplace(k, msgs, tableName, family, fault) ==
    LET l == ListTableOfFamily(k, fault)
    IN IF l.err # "" /\ l.err # ENOENT
       THEN [err |-> Err("get table", l.err), messages |-> msgs]
       ELSE IF ~l.found \/ l.err = ENOENT
            THEN [err |-> NoErr, messages |-> Append(msgs, [op |-> "AddTable"])]
            ELSE [err |-> NoErr,
                  messages |-> msgs \o << [op |-> "FlushTable"], [op |-> "DelTable"],
                                          [op |-> "AddTable"] >>]

getOrCreateTable(k, msgs, tableName, family, fault) ==
    LET l == ListTableOfFamily(k, fault)
    IN IF l.err # "" /\ l.err # ENOENT
       THEN [err |-> Err("get table", l.err), messages |-> msgs]
       ELSE IF ~l.found \/ l.err = ENOENT
            THEN [err |-> NoErr, messages |-> Append(msgs, [op |-> "AddTable"])]
            ELSE [err |-> NoErr, messages |-> msgs]

\* A getOrCreateChain that takes a chain that is not there for a failure.
getOrCreateChainNotFoundFails(k, msgs, chain, fault) ==
    LET got == ListChain(k, chain.Name, fault)
    IN IF got.err # ""
       THEN [err |-> Err("get chain", got.err), messages |-> msgs]
       ELSE [err |-> NoErr,
             messages |-> msgs \o << [op |-> "FlushChain", chain |-> chain.Name],
                                     [op |-> "DelChain", chain |-> chain.Name],
                                     [op |-> "AddChain", chain |-> chain] >>]

getOrCreateChain(k, msgs, chain, fault) ==
    LET got == ListChain(k, chain.Name, fault)
    IN IF got.err # "" /\ got.err # ENOENT
       THEN [err |-> Err("get chain", got.err), messages |-> msgs]
       ELSE LET replaced == IF got.found /\ got.err # ENOENT
                            THEN msgs \o << [op |-> "FlushChain", chain |-> chain.Name],
                                            [op |-> "DelChain", chain |-> chain.Name] >>
                            ELSE msgs
            IN [err |-> NoErr,
                messages |-> Append(replaced, [op |-> "AddChain", chain |-> chain])]

(***************************************************************************)
(* nft.go: setupChain and listRules.                                       *)
(***************************************************************************)
setupChain(cn, k, msgs, input, rules, fault) ==
    LET name == IF input THEN cn.inputChain ELSE cn.outputChain
        hook == IF input THEN ChainHookInput ELSE ChainHookOutput
        g == getOrCreateChain(k, msgs,
                              [Name |-> name, Hooknum |-> hook, Priority |-> cn.chainPriority],
                              fault)
    IN IF g.err # NoErr
       THEN [err |-> Err("getOrCreateChain", g.err.cause), messages |-> g.messages]
       ELSE [err |-> NoErr,
             messages |-> g.messages \o
                 [i \in 1..Len(rules) |->
                     [op |-> "AddRule", rule |-> marshalRule(cn.tableName, name, rules[i])]]]

\* The loop of listRules passing over the rules unmarshalRule rejects.
RECURSIVE listRulesLoopSkip(_, _, _)
listRulesLoopSkip(rules, chainName, specs) ==
    IF rules = << >> THEN [specs |-> specs, err |-> NoErr]
    ELSE LET u == unmarshalRule(Head(rules))
         IN IF u.err # ""
            THEN listRulesLoopSkip(Tail(rules), chainName, specs)
            ELSE listRulesLoopSkip(Tail(rules), chainName,
                                   Append(specs, [u.counter EXCEPT !.Dir = chainName]))

\* The loop of listRules over the rules ResetRules returned.
RECURSIVE listRulesLoop(_, _, _)
listRulesLoop(rules, chainName, specs) ==
    IF rules = << >> THEN [specs |-> specs, err |-> NoErr]
    ELSE LET u == unmarshalRule(Head(rules))
         IN IF u.err # ""
            THEN [specs |-> << >>, err |-> Err("unmarshalRule", u.err)]
            ELSE listRulesLoop(Tail(rules), chainName,
                               Append(specs, [u.counter EXCEPT !.Dir = chainName]))

\* fault: "" (none), "chain" (ListChain fails) or "reset" (ResetRules fails).
listRules(cn, k, input, fault) ==
    LET chainName == IF input THEN cn.inputChain ELSE cn.outputChain
        chain == ListChain(k, chainName, fault = "chain")
    IN IF chain.err # ""
       THEN [specs |-> << >>, err |-> Err("get chain", chain.err), k |-> k]
       ELSE LET rs == ResetRules(k, chainName, fault = "reset")
            IN IF rs.err # ""
               THEN [specs |-> << >>, err |-> Err("reset rules", rs.err), k |-> rs.k]
               ELSE LET d == listRulesLoop(rs.rules, chainName, << >>)
                    IN [specs |-> d.specs, err |-> d.err, k |-> rs.k]

(***************************************************************************)
(* Inputs.                                                                 *)
(***************************************************************************)
Addr4 == [z |-> "v4", b |-> << 1, 2, 3, 4 >>]
Addr6 == [z |-> "v6", b |-> << 32, 1, 13, 184, 0, 0, 0, 0, 0, 0, 0, 0, 0, 0, 0, 1 >>]

\* The counters of the repository's tests (rest_syn, rest_syn_ack and an
\* unlabelled UDP counter), labels shortened to one letter.
RestSyn ==
    [ZeroCounter EXCEPT !.Label = << 97 >>, !.DstPort = 8080, !.Protocol = ProtocolTCP,
                        !.SrcAddr = Addr4, !.TcpFlags = << TcpFlagSYN >>]
RestSynAck ==
    [ZeroCounter EXCEPT !.Label = << 98 >>, !.SrcPort = 8080, !.Protocol = ProtocolTCP,
                        !.DstAddr = Addr4, !.TcpFlags = << TcpFlagSYN, TcpFlagACK >>]
UdpOut ==
    [ZeroCounter EXCEPT !.DstPort = 9090, !.Protocol = ProtocolUDP, !.DstAddr = Addr4]

\* What Setup is called with: Input and Output, in order.
CounterSets ==
    { [Input |-> << RestSyn >>, Output |-> << RestSynAck, UdpOut >>],
      [Input |-> << UdpOut, UdpOut >>, Output |-> << >>] }

\* What New is called with.
Configs ==
    { ZeroConfig,
      [ZeroConfig EXCEPT !.InputChain = "in0", !.OutputChain = "out0"] }

\* A rule another program put into a monitored chain: no counter, no comment.
ForeignRule == [Exprs |-> << [type |-> "Verdict", Kind |-> "accept"] >>, UserData |-> << >>]

\* Bytes of one matched packet.
PacketLens == { 3 }

\* What the kernel holds when the Conn is made: no table of the configured
\* family and name, or one that is there already with another program's chain.
ForeignTable ==
    [table |-> TRUE,
     chains |-> [x \in { "forward" } |->
                    [Hooknum |-> "forward-hook", Priority |-> 0, Rules |-> << ForeignRule >>]]]
KernelStates == { NoKernel, ForeignTable }

Procs == { "p1", "p2" }

(***************************************************************************)
(* State.                                                                  *)
(*   cfg       the Config handed to New (Nil for a nil pointer)            *)
(*   cn        the Conn's configuration, set by New (Nil before New)       *)
(*   dm        the daemon around the Conn: Exporter's position, its meter  *)
(*             provider and periodic reader                                *)
(*   mu        Conn.mu: the caller holding it, "" when unlocked            *)
(*   messages  the messages staged on Conn.conn and not yet flushed        *)
(*   kernel    the kernel's table, chains and rules                        *)
(*   call      per caller: the operation in progress and its position      *)
(*   ret       per caller: what its last operation returned, what it met   *)
(*             on the way, and what the operation before it returned       *)
(*   used      how much of each bound the run has used                     *)
(*   hist      history: commits so far, lifecycle, the set last installed  *)
(*             and how many stale messages its Setup found staged; quiet:  *)
(*             the last ListRules succeeded and no packet was counted      *)
(*             since it began to read (armed: none since the ListRules     *)
(*             in progress began to read)                                  *)
(*   cpc, cspec, crule, cdec   one compile and decode of one specification *)
(***************************************************************************)
VARIABLES cfg, cn, dm, mu, messages, kernel, call, ret, used, hist, cpc, cspec, crule, cdec,
          cprev

vars ==
    << cfg, cn, dm, mu, messages, kernel, call, ret, used, hist, cpc, cspec, crule, cdec,
       cprev >>
codecVars == << cpc, cspec, crule, cdec, cprev >>

\* No daemon: the Conn is driven by its callers directly.
DaemonOff ==
    [pc |-> "off", provider |-> FALSE, reader |-> "off", cleanupInvoked |-> FALSE,
     lateList |-> FALSE, err |-> FALSE]

IdleCall(pc) ==
    [op |-> "", pc |-> pc, input |-> << >>, output |-> << >>, inputRules |-> << >>,
     fault |-> FALSE, foreign |-> FALSE, epochIn |-> 0, staged |-> 0, contended |-> FALSE]

NoRet ==
    [op |-> "", err |-> NoErr, input |-> << >>, output |-> << >>,
     fault |-> FALSE, foreign |-> FALSE, epochIn |-> 0, epochOut |-> 0,
     staged |-> 0, lifecycle |-> "", quiet |-> FALSE, set |-> Nil,
     prevOp |-> "", prevErr |-> NoErr]

(***************************************************************************)
(* History of the counts.  hist.tally sums, for each rule of the two       *)
(* monitored chains, the packets and bytes the rule has matched and the    *)
(* packets and bytes successful ListRules calls have returned for it,      *)
(* from a successful Setup until the next Setup or Cleanup commits, a      *)
(* ListRules fails or another program changes a chain.  It is "off" where  *)
(* the sums are not kept.                                                  *)
(***************************************************************************)
NoCounts == [input |-> << >>, output |-> << >>]
TallyOff == [st |-> "off", matched |-> NoCounts, reported |-> NoCounts]
TallyIdle == [st |-> "idle", matched |-> NoCounts, reported |-> NoCounts]

\* Packets and bytes of each rule of chain name (0, 0 for a rule without a
\* Counter).
ChainCounts(k, name) ==
    [i \in 1..Len(k.chains[name].Rules) |->
        LET exprs == k.chains[name].Rules[i].Exprs
            at == { j \in 1..Len(exprs) : exprs[j].type = "Counter" }
        IN IF at = { } THEN << 0, 0 >>
           ELSE LET j == CHOOSE j \in at : TRUE IN << exprs[j].Packets, exprs[j].Bytes >>]

SpecCounts(specs) == [i \in 1..Len(specs) |-> << specs[i].Packets, specs[i].Bytes >>]

AddCounts(a, b) == [i \in 1..Len(a) |-> << a[i][1] + b[i][1], a[i][2] + b[i][2] >>]

TallyStop(t) == IF t.st = "off" THEN t ELSE TallyIdle

\* A Setup has committed: the sums start from what the rules hold.
TallyStart(t, c, k) ==
    IF t.st = "off" THEN t
    ELSE IF ~(HasChain(k, c.inputChain) /\ HasChain(k, c.outputChain)) THEN TallyIdle
    ELSE LET held == [input |-> ChainCounts(k, c.inputChain),
                      output |-> ChainCounts(k, c.outputChain)]
         IN [st |-> "live", matched |-> held,
             reported |-> [input |-> [i \in 1..Len(held.input) |-> << 0, 0 >>],
                           output |-> [i \in 1..Len(held.output) |-> << 0, 0 >>]]]

\* Rule i of the input (or output) chain has matched a packet of len bytes.
TallyMatch(t, input, i, len) ==
    IF t.st # "live" THEN t
    ELSE IF input THEN [t EXCEPT !.matched.input[i] = << @[1] + 1, @[2] + len >>]
    ELSE [t EXCEPT !.matched.output[i] = << @[1] + 1, @[2] + len >>]

\* A ListRules has returned these rules of the input and of the output chain.
TallyReport(t, inputRules, outputRules) ==
    IF t.st # "live" THEN t
    ELSE [t EXCEPT !.reported.input = AddCounts(@, SpecCounts(inputRules)),
                   !.reported.output = AddCounts(@, SpecCounts(outputRules))]

InitConn(procs) ==
    /\ cfg \in Configs
    /\ cn = New(cfg)
    /\ mu = ""
    /\ messages = << >>
    /\ kernel \in KernelStates
    /\ call = [p \in Procs |-> IdleCall(IF p \in procs THEN "idle" ELSE "off")]
    /\ ret = [p \in Procs |-> NoRet]
    /\ used = [ops |-> 0, faults |-> 0, traffic |-> 0, foreign |-> 0, procs |-> Cardinality(procs)]
    /\ hist = [epoch |-> 0, lifecycle |-> "uninitialized", installed |-> Nil, quiet |-> FALSE,
               armed |-> FALSE, leaked |-> 0, tally |-> TallyOff]

(***************************************************************************)
(* Steps of a call.  A step is what the call does up to and including its  *)
(* next round trip to the kernel; a call that returns unlocks mu in the    *)
(* same step (the deferred Unlock).                                        *)
(***************************************************************************)
OpsBound == IF used.procs = 1 THEN MaxOps ELSE MaxConcOps

\* Whether this round trip may fail with a transport error.
FaultChoice == IF used.faults < MaxFaults THEN { FALSE, TRUE } ELSE { FALSE }

Charge(fault) == [used EXCEPT !.faults = IF fault THEN @ + 1 ELSE @]

\* A Lock that does not wait.
CanLockUnguarded(p) == TRUE

\* sync.Mutex: Lock proceeds when the mutex is free.
CanLock(p) == mu = ""

Continue(p, pc, fault) ==
    /\ call' = [call EXCEPT ![p].pc = pc, ![p].fault = @ \/ fault]
    /\ UNCHANGED << ret, mu >>

Return(p, err, input, output, fault, foreign, epochOut, set) ==
    /\ ret' = [ret EXCEPT ![p] =
                  [op |-> call[p].op, err |-> err, input |-> input, output |-> output,
                   fault |-> call[p].fault \/ fault,
                   foreign |-> call[p].foreign \/ foreign,
                   epochIn |-> call[p].epochIn, epochOut |-> epochOut,
                   staged |-> call[p].staged,
                   lifecycle |-> hist.lifecycle, quiet |-> hist.quiet, set |-> set,
                   prevOp |-> ret[p].op, prevErr |-> ret[p].err]]
    /\ call' = [call EXCEPT ![p] = IdleCall("idle")]
    /\ mu' = ""

CallSetup(p) ==
    /\ call[p].pc = "idle"
    /\ used.ops < OpsBound
    /\ \E cs \in CounterSets :
          call' = [call EXCEPT ![p] = [IdleCall("lock") EXCEPT
                                          !.op = "Setup", !.input = cs.Input, !.output = cs.Output,
                                          !.contended = mu # ""]]
    /\ used' = [used EXCEPT !.ops = @ + 1]
    /\ UNCHANGED << cn, cfg, dm, mu, messages, kernel, ret, hist, codecVars >>

CallListRules(p) ==
    /\ call[p].pc = "idle"
    /\ used.ops < OpsBound
    /\ call' = [call EXCEPT ![p] = [IdleCall("lock") EXCEPT !.op = "ListRules",
                                          !.contended = mu # ""]]
    /\ used' = [used EXCEPT !.ops = @ + 1]
    /\ UNCHANGED << cn, cfg, dm, mu, messages, kernel, ret, hist, codecVars >>

CallCleanup(p) ==
    /\ call[p].pc = "idle"
    /\ used.ops < OpsBound
    /\ call' = [call EXCEPT ![p] = [IdleCall("lock") EXCEPT !.op = "Cleanup",
                                          !.contended = mu # ""]]
    /\ used' = [used EXCEPT !.ops = @ + 1]
    /\ UNCHANGED << cn, cfg, dm, mu, messages, kernel, ret, hist, codecVars >>

\* n.mu.Lock() at the head of Setup, ListRules and Cleanup.
Lock(p) ==
    /\ call[p].pc = "lock"
    /\ CanLock(p)
    /\ mu' = p
    /\ call' = [call EXCEPT ![p].pc = CASE call[p].op = "Setup" -> "getOrCreateTable"
                                        [] call[p].op = "ListRules" -> "listTable"
                                        [] call[p].op = "Cleanup" -> "cleanupTable",
                            ![p].staged = Len(messages)]
    /\ UNCHANGED << cn, cfg, dm, messages, kernel, ret, used, hist, codecVars >>

(***************************************************************************)
(* Conn.Setup                                                              *)
(***************************************************************************)
SetupTable(p) ==
    /\ call[p].pc = "getOrCreateTable"
    /\ \E fault \in FaultChoice :
          LET r == getOrCreateTable(kernel, messages, cn.tableName, cn.tableFamily, fault)
          IN /\ messages' = r.messages
             /\ used' = Charge(fault)
             /\ IF r.err # NoErr
                THEN Return(p, r.err, << >>, << >>, fault, FALSE, hist.epoch, Nil)
                ELSE Continue(p, "setupChainInput", fault)
    /\ UNCHANGED << cn, cfg, dm, kernel, hist, codecVars >>

SetupChainInput(p) ==
    /\ call[p].pc = "setupChainInput"
    /\ \E fault \in FaultChoice :
          LET r == setupChain(cn, kernel, messages, TRUE, call[p].input, fault)
          IN /\ messages' = r.messages
             /\ used' = Charge(fault)
             /\ IF r.err # NoErr
                THEN Return(p, r.err, << >>, << >>, fault, FALSE, hist.epoch, Nil)
                ELSE Continue(p, "setupChainOutput", fault)
    /\ UNCHANGED << cn, cfg, dm, kernel, hist, codecVars >>

SetupChainOutput(p) ==
    /\ call[p].pc = "setupChainOutput"
    /\ \E fault \in FaultChoice :
          LET r == setupChain(cn, kernel, messages, FALSE, call[p].output, fault)
          IN /\ messages' = r.messages
             /\ used' = Charge(fault)
             /\ IF r.err # NoErr
                THEN Return(p, r.err, << >>, << >>, fault, FALSE, hist.epoch, Nil)
                ELSE Continue(p, "flush", fault)
    /\ UNCHANGED << cn, cfg, dm, kernel, hist, codecVars >>

SetupFlush(p) ==
    /\ call[p].pc = "flush"
    /\ \E fault \in FaultChoice :
          LET r == Flush(kernel, messages, fault)
              set == [Input |-> call[p].input, Output |-> call[p].output]
          IN /\ kernel' = r.k
             /\ messages' = << >>
             /\ used' = Charge(fault)
             /\ hist' = IF r.err = ""
                        THEN [hist EXCEPT !.epoch = @ + 1, !.lifecycle = "ready",
                                          !.installed = set, !.leaked = call[p].staged,
                                          !.tally = TallyStart(@, cn, r.k)]
                        ELSE [hist EXCEPT !.tally = TallyStop(@)]
             /\ Return(p, IF r.err = "" THEN NoErr ELSE Err("flush", r.err),
                       << >>, << >>, fault, FALSE, hist'.epoch, set)
    /\ UNCHANGED << cn, cfg, dm, codecVars >>

(***************************************************************************)
(* Conn.ListRules                                                          *)
(***************************************************************************)
ListFaultChoice == IF used.faults < MaxFaults THEN { "", "chain", "reset" } ELSE { "" }

HasForeign(k, name) ==
    /\ HasChain(k, name)
    /\ \E i \in 1..Len(k.chains[name].Rules) : k.chains[name].Rules[i] = ForeignRule

\* ListRules treating a missing table as Cleanup does: nothing to list, no error.
ListTableNotFoundIsEmpty(p) ==
    /\ call[p].pc = "listTable"
    /\ \E fault \in FaultChoice :
          LET l == ListTableOfFamily(kernel, fault)
          IN /\ used' = Charge(fault)
             /\ IF l.err # "" /\ l.err # ENOENT
                THEN Return(p, Err("get table", l.err), << >>, << >>, fault, FALSE,
                            hist.epoch, Nil)
                ELSE IF l.err = ENOENT
                     THEN Return(p, NoErr, << >>, << >>, fault, FALSE, hist.epoch, Nil)
                     ELSE Continue(p, "listRulesInput", fault)
    /\ UNCHANGED << cn, cfg, dm, messages, kernel, hist, codecVars >>

ListTable(p) ==
    /\ call[p].pc = "listTable"
    /\ \E fault \in FaultChoice :
          LET l == ListTableOfFamily(kernel, fault)
          IN /\ used' = Charge(fault)
             /\ IF l.err # ""
                THEN Return(p, Err("get table", l.err), << >>, << >>, fault, FALSE,
                            hist.epoch, Nil)
                ELSE Continue(p, "listRulesInput", fault)
    /\ UNCHANGED << cn, cfg, dm, messages, kernel, hist, codecVars >>

ListRulesInput(p) ==
    /\ call[p].pc = "listRulesInput"
    /\ \E fault \in ListFaultChoice :
          LET r == listRules(cn, kernel, TRUE, fault)
              foreign == fault = "" /\ HasForeign(kernel, cn.inputChain)
          IN /\ kernel' = r.k
             /\ used' = Charge(fault # "")
             /\ IF r.err # NoErr
                THEN /\ Return(p, r.err, << >>, << >>, fault # "", foreign, hist.epoch, Nil)
                     /\ hist' = [hist EXCEPT !.tally = TallyStop(@)]
                ELSE /\ call' = [call EXCEPT ![p].pc = "listRulesOutput",
                                             ![p].inputRules = r.specs,
                                             ![p].foreign = foreign,
                                             ![p].epochIn = hist.epoch]
                     /\ hist' = [hist EXCEPT !.armed = TRUE]
                     /\ UNCHANGED << ret, mu >>
    /\ UNCHANGED << cn, cfg, dm, messages, codecVars >>

ListRulesOutput(p) ==
    /\ call[p].pc = "listRulesOutput"
    /\ \E fault \in ListFaultChoice :
          LET r == listRules(cn, kernel, FALSE, fault)
              foreign == fault = "" /\ HasForeign(kernel, cn.outputChain)
              ok == r.err = NoErr
          IN /\ kernel' = r.k
             /\ used' = Charge(fault # "")
             /\ Return(p, r.err, IF ok THEN call[p].inputRules ELSE << >>,
                       IF ok THEN r.specs ELSE << >>, fault # "", foreign, hist.epoch,
                       hist.installed)
             /\ hist' = [hist EXCEPT !.quiet = ok /\ hist.armed, !.armed = FALSE,
                                      !.tally = IF ok THEN TallyReport(@, call[p].inputRules, r.specs)
                                                ELSE TallyStop(@)]
    /\ UNCHANGED << cn, cfg, dm, messages, codecVars >>

(***************************************************************************)
(* Conn.Cleanup                                                            *)
(***************************************************************************)
\* Cleanup without its early return for a table that is not there.
CleanupTableNoEarlyReturn(p) ==
    /\ call[p].pc = "cleanupTable"
    /\ \E fault \in FaultChoice :
          LET l == ListTableOfFamily(kernel, fault)
          IN /\ used' = Charge(fault)
             /\ IF l.err # "" /\ l.err # ENOENT
                THEN /\ Return(p, Err("get table", l.err), << >>, << >>, fault, FALSE,
                               hist.epoch, Nil)
                     /\ UNCHANGED << messages, hist >>
                ELSE /\ messages' = messages \o << [op |-> "FlushTable"],
                                                   [op |-> "DelTable"] >>
                     /\ Continue(p, "cleanupFlush", fault)
                     /\ UNCHANGED hist
    /\ UNCHANGED << cn, cfg, dm, kernel, codecVars >>

CleanupTable(p) ==
    /\ call[p].pc = "cleanupTable"
    /\ \E fault \in FaultChoice :
          LET l == ListTableOfFamily(kernel, fault)
          IN /\ used' = Charge(fault)
             /\ IF l.err # "" /\ l.err # ENOENT
                THEN /\ Return(p, Err("get table", l.err), << >>, << >>, fault, FALSE,
                               hist.epoch, Nil)
                     /\ UNCHANGED << messages, hist >>
                ELSE IF ~l.found \/ l.err = ENOENT
                     THEN /\ Return(p, NoErr, << >>, << >>, fault, FALSE, hist.epoch, Nil)
                          /\ hist' = [hist EXCEPT !.lifecycle = "torn-down", !.installed = Nil,
                                                   !.tally = TallyStop(@)]
                          /\ UNCHANGED messages
                     ELSE /\ messages' = messages \o << [op |-> "FlushTable"],
                                                        [op |-> "DelTable"] >>
                          /\ Continue(p, "cleanupFlush", fault)
                          /\ UNCHANGED hist
    /\ UNCHANGED << cn, cfg, dm, kernel, codecVars >>

CleanupFlush(p) ==
    /\ call[p].pc = "cleanupFlush"
    /\ \E fault \in FaultChoice :
          LET r == Flush(kernel, messages, fault)
          IN /\ kernel' = r.k
             /\ messages' = << >>
             /\ used' = Charge(fault)
             /\ hist' = IF r.err = ""
                        THEN [hist EXCEPT !.epoch = @ + 1, !.lifecycle = "torn-down",
                                          !.installed = Nil, !.tally = TallyStop(@)]
                        ELSE [hist EXCEPT !.tally = TallyStop(@)]
             /\ Return(p, IF r.err = "" THEN NoErr ELSE Err("flush", r.err),
                       << >>, << >>, fault, FALSE, hist'.epoch, Nil)
    /\ UNCHANGED << cn, cfg, dm, codecVars >>

(***************************************************************************)
(* The environment: a packet matches a counting rule of a monitored chain, *)
(* and another program appends a rule of its own to a monitored chain.     *)
(***************************************************************************)
Monitored == { cn.inputChain, cn.outputChain }

Count(rule, len) ==
    [rule EXCEPT !.Exprs = [i \in 1..Len(rule.Exprs) |->
                               IF rule.Exprs[i].type = "Counter"
                               THEN Counter(rule.Exprs[i].Packets + 1, rule.Exprs[i].Bytes + len)
                               ELSE rule.Exprs[i]]]

Traffic ==
    /\ used.traffic < MaxTraffic
    /\ \E name \in Monitored :
          /\ HasChain(kernel, name)
          /\ \E i \in 1..Len(kernel.chains[name].Rules), len \in PacketLens :
                /\ kernel.chains[name].Rules[i] # ForeignRule
                /\ kernel' = SetChain(kernel, name,
                                      [kernel.chains[name] EXCEPT
                                           !.Rules[i] = Count(@, len)])
                /\ hist' = [hist EXCEPT !.quiet = FALSE, !.armed = FALSE,
                                         !.tally = TallyMatch(@, name = cn.inputChain, i, len)]
    /\ used' = [used EXCEPT !.traffic = @ + 1]
    /\ UNCHANGED << cn, cfg, dm, mu, messages, call, ret, codecVars >>

ForeignAddRule ==
    /\ used.foreign < MaxForeign
    /\ \E name \in Monitored :
          /\ HasChain(kernel, name)
          /\ kernel' = SetChain(kernel, name,
                                [kernel.chains[name] EXCEPT !.Rules = Append(@, ForeignRule)])
    /\ used' = [used EXCEPT !.foreign = @ + 1]
    /\ hist' = [hist EXCEPT !.tally = TallyStop(@)]
    /\ UNCHANGED << cn, cfg, dm, mu, messages, call, ret, codecVars >>

(***************************************************************************)
(* One caller (Spec) and two concurrent callers (SpecConc) of one Conn.    *)
(***************************************************************************)
CodecOff == cpc = "off" /\ cspec = ZeroCounter /\ crule = Nil /\ cdec = Nil /\ cprev = Nil

Init == InitConn({ "p1" }) /\ CodecOff /\ dm = DaemonOff

InitConc == InitConn(Procs) /\ CodecOff /\ dm = DaemonOff

Next ==
    \/ \E p \in Procs : CallSetup(p)
    \/ \E p \in Procs : CallListRules(p)
    \/ \E p \in Procs : CallCleanup(p)
    \/ \E p \in Procs : Lock(p)
    \/ \E p \in Procs : SetupTable(p)
    \/ \E p \in Procs : SetupChainInput(p)
    \/ \E p \in Procs : SetupChainOutput(p)
    \/ \E p \in Procs : SetupFlush(p)
    \/ \E p \in Procs : ListTable(p)
    \/ \E p \in Procs : ListRulesInput(p)
    \/ \E p \in Procs : ListRulesOutput(p)
    \/ \E p \in Procs : CleanupTable(p)
    \/ \E p \in Procs : CleanupFlush(p)
    \/ Traffic
    \/ ForeignAddRule

Spec == Init /\ [][Next]_vars

\* One caller, with the sums of matched and returned counts kept.
InitPoll ==
    /\ cfg \in Configs
    /\ cn = New(cfg)
    /\ mu = ""
    /\ messages = << >>
    /\ kernel \in KernelStates
    /\ call = [p \in Procs |-> IdleCall(IF p = "p1" THEN "idle" ELSE "off")]
    /\ ret = [p \in Procs |-> NoRet]
    /\ used = [ops |-> 0, faults |-> 0, traffic |-> 0, foreign |-> 0, procs |-> 1]
    /\ hist = [epoch |-> 0, lifecycle |-> "uninitialized", installed |-> Nil, quiet |-> FALSE,
               armed |-> FALSE, leaked |-> 0, tally |-> TallyIdle]
    /\ CodecOff
    /\ dm = DaemonOff

NextPoll == Next

SpecPoll == InitPoll /\ [][NextPoll]_vars

\* Two callers and a quiet kernel: no packets, no other program.
NextConc ==
    \/ \E p \in Procs : CallSetup(p)
    \/ \E p \in Procs : CallListRules(p)
    \/ \E p \in Procs : CallCleanup(p)
    \/ \E p \in Procs : Lock(p)
    \/ \E p \in Procs : SetupTable(p)
    \/ \E p \in Procs : SetupChainInput(p)
    \/ \E p \in Procs : SetupChainOutput(p)
    \/ \E p \in Procs : SetupFlush(p)
    \/ \E p \in Procs : ListTable(p)
    \/ \E p \in Procs : ListRulesInput(p)
    \/ \E p \in Procs : ListRulesOutput(p)
    \/ \E p \in Procs : CleanupTable(p)
    \/ \E p \in Procs : CleanupFlush(p)

SpecConc == InitConc /\ [][NextConc]_vars

(***************************************************************************)
(* SpecCodec: marshalRule and unmarshalRule on one counter specification,  *)
(* drawn from every combination of the field values below.                 *)
(***************************************************************************)
LabelChars == { 97, 98 }
Labels == UNION { [1..k -> LabelChars] : k \in 0..MaxLabelLen }
Addrs == { NoAddr, Addr4, Addr6 }
Protocols == { 0, ProtocolICMP, ProtocolTCP, ProtocolUDP, ProtocolICMPv6 }
Ports == { 0, 8080 }
FlagLists ==
    { << >>, << TcpFlagSYN >>, << TcpFlagSYN, TcpFlagACK >>, << TcpFlagACK, TcpFlagSYN >>,
      << TcpFlagPSH >>, << TcpFlagFIN, TcpFlagPSH, TcpFlagURG >> }
ReadBack == { [Dir |-> "", Packets |-> 0, Bytes |-> 0], [Dir |-> "input", Packets |-> 5, Bytes |-> 7] }

CodecSpecs ==
    { [Label |-> l, SrcPort |-> sp, DstPort |-> dp, TcpFlags |-> fl, Protocol |-> pr,
       SrcAddr |-> sa, DstAddr |-> da, Dir |-> rb.Dir, Packets |-> rb.Packets,
       Bytes |-> rb.Bytes] :
         l \in Labels, sp \in Ports, dp \in Ports, fl \in FlagLists, pr \in Protocols,
         sa \in Addrs, da \in Addrs, rb \in ReadBack }

InitCodec ==
    /\ cfg = ZeroConfig
    /\ dm = DaemonOff
    /\ cn = New(cfg)
    /\ mu = ""
    /\ messages = << >>
    /\ kernel = NoKernel
    /\ call = [p \in Procs |-> IdleCall("off")]
    /\ ret = [p \in Procs |-> NoRet]
    /\ used = [ops |-> 0, faults |-> 0, traffic |-> 0, foreign |-> 0, procs |-> 0]
    /\ hist = [epoch |-> 0, lifecycle |-> "uninitialized", installed |-> Nil, quiet |-> FALSE,
               armed |-> FALSE, leaked |-> 0, tally |-> TallyOff]
    /\ cpc = "spec"
    /\ cspec \in CodecSpecs
    /\ crule = Nil
    /\ cdec = Nil
    /\ cprev = Nil

Compile ==
    /\ cpc = "spec"
    /\ crule' = marshalRule(cn.tableName, cn.inputChain, cspec)
    /\ cpc' = "rule"
    /\ UNCHANGED << cn, cfg, dm, mu, messages, kernel, call, ret, used, hist, cspec, cdec,
                   cprev >>

Decode ==
    /\ cpc = "rule"
    /\ cdec' = unmarshalRule(crule)
    /\ cpc' = "decoded"
    /\ UNCHANGED << cn, cfg, dm, mu, messages, kernel, call, ret, used, hist, cspec, crule,
                   cprev >>

NextCodec == Compile \/ Decode

SpecCodec == InitCodec /\ [][NextCodec]_vars

(***************************************************************************)
(* Two rounds: the Counter unmarshalRule returns is handed to marshalRule  *)
(* again.  The specifications of the first round include flags given       *)
(* twice.                                                                  *)
(***************************************************************************)
NormFlagLists ==
    FlagLists \cup { << TcpFlagSYN, TcpFlagSYN >>, << TcpFlagACK, TcpFlagSYN, TcpFlagACK >>,
                     << TcpFlagRST, TcpFlagFIN >> }

NormSpecs ==
    { [Label |-> l, SrcPort |-> sp, DstPort |-> dp, TcpFlags |-> fl, Protocol |-> pr,
       SrcAddr |-> sa, DstAddr |-> da, Dir |-> rb.Dir, Packets |-> rb.Packets,
       Bytes |-> rb.Bytes] :
         l \in Labels, sp \in Ports, dp \in Ports, fl \in NormFlagLists, pr \in Protocols,
         sa \in Addrs, da \in Addrs, rb \in ReadBack }

InitNorm ==
    /\ cfg = ZeroConfig
    /\ dm = DaemonOff
    /\ cn = New(cfg)
    /\ mu = ""
    /\ messages = << >>
    /\ kernel = NoKernel
    /\ call = [p \in Procs |-> IdleCall("off")]
    /\ ret = [p \in Procs |-> NoRet]
    /\ used = [ops |-> 0, faults |-> 0, traffic |-> 0, foreign |-> 0, procs |-> 0]
    /\ hist = [epoch |-> 0, lifecycle |-> "uninitialized", installed |-> Nil, quiet |-> FALSE,
               armed |-> FALSE, leaked |-> 0, tally |-> TallyOff]
    /\ cpc = "spec"
    /\ cspec \in NormSpecs
    /\ crule = Nil
    /\ cdec = Nil
    /\ cprev = Nil

\* The Counter of a successful decode becomes the specification of a second
\* round; cprev keeps the first round.
Renormalise ==
    /\ cpc = "decoded"
    /\ cprev = Nil
    /\ cdec.err = ""
    /\ cprev' = [spec |-> cspec, rule |-> crule, dec |-> cdec]
    /\ cspec' = cdec.counter
    /\ crule' = Nil
    /\ cdec' = Nil
    /\ cpc' = "spec"
    /\ UNCHANGED << cn, cfg, dm, mu, messages, kernel, call, ret, used, hist >>

NextNorm == Compile \/ Decode \/ Renormalise

SpecNorm == InitNorm /\ [][NextNorm]_vars

(***************************************************************************)
(* Construction: New applied to a Config, each field left at its zero      *)
(* value, set to its default or set to another value, or to no Config.     *)
(***************************************************************************)
NewConfigs ==
    { [TableFamily |-> f, TableName |-> t, InputChain |-> i, OutputChain |-> o,
       ChainPriority |-> pr] :
         f \in { 0, TableFamilyIPv4, TableFamilyIPv6 },
         t \in { "", "flowmon", "t0" },
         i \in { "", "input", "in0" },
         o \in { "", "output", "out0" },
         pr \in { 0, -300, 10 } }

InitNew ==
    /\ cfg \in NewConfigs \cup { Nil }
    /\ cn = Nil
    /\ dm = DaemonOff
    /\ mu = ""
    /\ messages = << >>
    /\ kernel = NoKernel
    /\ call = [p \in Procs |-> IdleCall("off")]
    /\ ret = [p \in Procs |-> NoRet]
    /\ used = [ops |-> 0, faults |-> 0, traffic |-> 0, foreign |-> 0, procs |-> 0]
    /\ hist = [epoch |-> 0, lifecycle |-> "uninitialized", installed |-> Nil, quiet |-> FALSE,
               armed |-> FALSE, leaked |-> 0, tally |-> TallyOff]
    /\ CodecOff

NewConn ==
    /\ cn = Nil
    /\ cn' = New(cfg)
    /\ UNCHANGED << cfg, dm, mu, messages, kernel, call, ret, used, hist, codecVars >>

NextNew == NewConn

SpecNew == InitNew /\ [][NextNew]_vars

(***************************************************************************)
(* Read-back of rules this program did not compile: unmarshalRule applied  *)
(* to every rule of at most MaxExprs expressions over DecodeExprs, with    *)
(* no user data, user data without a comment, an empty comment or a        *)
(* comment.                                                                *)
(***************************************************************************)
DecodeExprs ==
    { Meta(MetaKeyL4PROTO, 1),
      Meta("iifname", 1),
      Payload(1, PayloadBaseTransportHeader, 0, 2),
      Payload(1, PayloadBaseTransportHeader, 13, 1),
      Payload(1, PayloadBaseNetworkHeader, 12, 4),
      Payload(2, PayloadBaseNetworkHeader, 24, 16),
      Cmp(CmpOpEq, 1, << ProtocolTCP >>),
      Cmp(CmpOpEq, 1, << 31, 144 >>),
      Cmp(CmpOpEq, 1, << 1, 2, 3 >>),
      Cmp(CmpOpEq, 1, Addr4.b),
      Cmp(CmpOpEq, 1, Addr6.b),
      Cmp(CmpOpEq, 2, Addr6.b),
      Cmp(CmpOpEq, 2, << ProtocolTCP >>),
      Bitwise(1, 1, 1, << 23 >>, << 0 >>),
      Bitwise(2, 2, 1, << 23 >>, << 0 >>),
      Counter(5, 7),
      Counter(1, 60),
      [type |-> "Verdict", Kind |-> "accept"] }

DecodeUserData ==
    { << >>,
      userdataAppend(<< >>, 1, << 9 >>),
      userdataAppendString(<< >>, TypeComment, << >>),
      userdataAppendString(<< >>, TypeComment, << 97 >>) }

DecodeRules ==
    { [Table |-> "flowmon", Chain |-> "input", Exprs |-> e, UserData |-> u] :
         e \in UNION { [1..k -> DecodeExprs] : k \in 0..MaxExprs }, u \in DecodeUserData }

InitDecode ==
    /\ cfg = ZeroConfig
    /\ dm = DaemonOff
    /\ cn = New(cfg)
    /\ mu = ""
    /\ messages = << >>
    /\ kernel = NoKernel
    /\ call = [p \in Procs |-> IdleCall("off")]
    /\ ret = [p \in Procs |-> NoRet]
    /\ used = [ops |-> 0, faults |-> 0, traffic |-> 0, foreign |-> 0, procs |-> 0]
    /\ hist = [epoch |-> 0, lifecycle |-> "uninitialized", installed |-> Nil, quiet |-> FALSE,
               armed |-> FALSE, leaked |-> 0, tally |-> TallyOff]
    /\ cpc = "rule"
    /\ cspec = ZeroCounter
    /\ crule \in DecodeRules
    /\ cdec = Nil
    /\ cprev = Nil

NextDecode == Decode

SpecDecode == InitDecode /\ [][NextDecode]_vars

(***************************************************************************)
(* The daemon (exporter.go, main.go).  The main goroutine, caller "p1",    *)
(* runs New with Setup, Start and, on a signal, Shutdown: it stops the     *)
(* meter provider and then calls Cleanup.  The provider's periodic reader, *)
(* caller "p2", runs the registered callback, which calls ListRules.       *)
(*   dm.pc        main goroutine: new, setup, ready, running, shutdown,    *)
(*                collecting, stopped, cleanup, done, failed               *)
(*   dm.provider  e.meterProvider # nil                                    *)
(*   dm.reader    the periodic reader: off, on, stopped                    *)
(*   dm.err       Shutdown returned an error                               *)
(*   dm.cleanupInvoked, dm.lateList  history: Cleanup has been called; a   *)
(*                ListRules call started after that                        *)
(***************************************************************************)
Main == "p1"
Reader == "p2"

StartCall(p, op, cs) ==
    call' = [call EXCEPT ![p] = [IdleCall("lock") EXCEPT
                                    !.op = op, !.input = cs.Input, !.output = cs.Output,
                                    !.contended = mu # ""]]

NoCounters == [Input |-> << >>, Output |-> << >>]

Returned(p, op) == call[p].pc = "idle" /\ ret[p].op = op

\* exporter.New: nft.New, then Setup with the configured counters.
DaemonSetup ==
    /\ dm.pc = "new"
    /\ \E cs \in CounterSets : StartCall(Main, "Setup", cs)
    /\ dm' = [dm EXCEPT !.pc = "setup"]
    /\ UNCHANGED << cfg, cn, mu, messages, kernel, ret, used, hist, codecVars >>

DaemonSetupReturn ==
    /\ dm.pc = "setup"
    /\ Returned(Main, "Setup")
    /\ dm' = [dm EXCEPT !.pc = IF ret[Main].err = NoErr THEN "ready" ELSE "failed"]
    /\ UNCHANGED << cfg, cn, mu, messages, kernel, call, ret, used, hist, codecVars >>

\* Exporter.Start: the meter provider with its periodic reader, and the callback.
DaemonStart ==
    /\ dm.pc = "ready"
    /\ dm' = [dm EXCEPT !.pc = "running", !.provider = TRUE, !.reader = "on"]
    /\ UNCHANGED << cfg, cn, mu, messages, kernel, call, ret, used, hist, codecVars >>

\* The periodic reader collects: the callback calls ListRules.
ReaderTick ==
    /\ dm.reader = "on"
    /\ call[Reader].pc = "idle"
    /\ used.ops < OpsBound
    /\ StartCall(Reader, "ListRules", NoCounters)
    /\ used' = [used EXCEPT !.ops = @ + 1]
    /\ dm' = [dm EXCEPT !.lateList = @ \/ dm.cleanupInvoked]
    /\ UNCHANGED << cfg, cn, mu, messages, kernel, ret, hist, codecVars >>

\* SIGINT or SIGTERM: Shutdown is called.
Signal ==
    /\ dm.pc \in { "ready", "running" }
    /\ dm' = [dm EXCEPT !.pc = "shutdown"]
    /\ UNCHANGED << cfg, cn, mu, messages, kernel, call, ret, used, hist, codecVars >>

\* meterProvider.Shutdown: the reader stops ticking, waits for a collection in
\* progress and collects once more.
ProviderShutdown ==
    /\ dm.pc = "shutdown"
    /\ dm.provider
    /\ call[Reader].pc = "idle"
    /\ StartCall(Reader, "ListRules", NoCounters)
    /\ dm' = [dm EXCEPT !.pc = "collecting", !.reader = "stopped",
                        !.lateList = @ \/ dm.cleanupInvoked]
    /\ UNCHANGED << cfg, cn, mu, messages, kernel, ret, used, hist, codecVars >>

\* meterProvider.Shutdown returns: nil, or an error (the last export failed or
\* the five seconds ran out), and then Shutdown returns that error at once.
ProviderShutdownReturn ==
    /\ dm.pc = "collecting"
    /\ Returned(Reader, "ListRules")
    /\ \E ok \in BOOLEAN :
          dm' = IF ok THEN [dm EXCEPT !.pc = "stopped"]
                ELSE [dm EXCEPT !.pc = "done", !.err = TRUE]
    /\ UNCHANGED << cfg, cn, mu, messages, kernel, call, ret, used, hist, codecVars >>

\* e.nftClient.Cleanup(), reached when there is no provider or it has stopped.
DaemonCleanup ==
    /\ \/ dm.pc = "shutdown" /\ ~dm.provider
       \/ dm.pc = "stopped"
    /\ StartCall(Main, "Cleanup", NoCounters)
    /\ dm' = [dm EXCEPT !.pc = "cleanup", !.cleanupInvoked = TRUE]
    /\ UNCHANGED << cfg, cn, mu, messages, kernel, ret, used, hist, codecVars >>

DaemonCleanupReturn ==
    /\ dm.pc = "cleanup"
    /\ Returned(Main, "Cleanup")
    /\ dm' = [dm EXCEPT !.pc = "done", !.err = ret[Main].err # NoErr]
    /\ UNCHANGED << cfg, cn, mu, messages, kernel, call, ret, used, hist, codecVars >>

InitShutdown ==
    /\ InitConn(Procs)
    /\ CodecOff
    /\ dm = [DaemonOff EXCEPT !.pc = "new"]

NextShutdown ==
    \/ DaemonSetup
    \/ DaemonSetupReturn
    \/ DaemonStart
    \/ ReaderTick
    \/ Signal
    \/ ProviderShutdown
    \/ ProviderShutdownReturn
    \/ DaemonCleanup
    \/ DaemonCleanupReturn
    \/ \E p \in Procs : Lock(p)
    \/ \E p \in Procs : SetupTable(p)
    \/ \E p \in Procs : SetupChainInput(p)
    \/ \E p \in Procs : SetupChainOutput(p)
    \/ \E p \in Procs : SetupFlush(p)
    \/ \E p \in Procs : ListTable(p)
    \/ \E p \in Procs : ListRulesInput(p)
    \/ \E p \in Procs : ListRulesOutput(p)
    \/ \E p \in Procs : CleanupTable(p)
    \/ \E p \in Procs : CleanupFlush(p)
    \/ Traffic

SpecShutdown == InitShutdown /\ [][NextShutdown]_vars

(***************************************************************************)
(* Claims.                                                                 *)
(***************************************************************************)
Range(f) == { f[i] : i \in DOMAIN f }

\* Flags listed once each, in the order FIN, SYN, RST, PSH, ACK, URG, ECE, CWR.
Canonical(flags) == \A i, j \in DOMAIN flags : i < j => flags[i] < flags[j]

\* Ports only with TCP or UDP, flags only with TCP, addresses of one family.
WellFormed(s) ==
    /\ (s.SrcPort # 0 \/ s.DstPort # 0) => s.Protocol \in { ProtocolTCP, ProtocolUDP }
    /\ s.TcpFlags # << >> => s.Protocol = ProtocolTCP
    /\ (IsValid(s.SrcAddr) /\ IsValid(s.DstAddr)) => s.SrcAddr.z = s.DstAddr.z

\* C1: decoding the rule compiled from a well-formed specification succeeds and
\* gives back its label, addresses, protocol, ports and flags (the same set of
\* flags, and the same list when the flags were given in canonical order), with
\* packets = bytes = 0 and direction unset.
C1_RoundTrip ==
    (cpc = "decoded" /\ WellFormed(cspec)) =>
        /\ cdec.err = ""
        /\ cdec.counter.Label = cspec.Label
        /\ cdec.counter.SrcAddr = cspec.SrcAddr
        /\ cdec.counter.DstAddr = cspec.DstAddr
        /\ cdec.counter.Protocol = cspec.Protocol
        /\ cdec.counter.SrcPort = cspec.SrcPort
        /\ cdec.counter.DstPort = cspec.DstPort
        /\ Range(cdec.counter.TcpFlags) = Range(cspec.TcpFlags)
        /\ Canonical(cspec.TcpFlags) => cdec.counter.TcpFlags = cspec.TcpFlags
        /\ cdec.counter.Packets = 0
        /\ cdec.counter.Bytes = 0
        /\ cdec.counter.Dir = ""

\* A labelled TCP specification with both addresses, both ports, two flags and
\* stale read-back fields has been compiled and decoded.
C1_Witness ==
    /\ cpc = "decoded"
    /\ WellFormed(cspec)
    /\ cspec.Label # << >>
    /\ cspec.SrcAddr = Addr6 /\ cspec.DstAddr = Addr6
    /\ cspec.SrcPort # 0 /\ cspec.DstPort # 0
    /\ cspec.TcpFlags = << TcpFlagSYN, TcpFlagACK >>
    /\ cspec.Packets # 0 /\ cspec.Dir # ""
    /\ cdec.err = ""

\* The rules of a chain that this program put there, counters set to zero.
OwnRules(name) ==
    LET own == SelectSeq(kernel.chains[name].Rules, LAMBDA r : r # ForeignRule)
    IN [i \in 1..Len(own) |-> ZeroCounters(own[i])]

\* The rules marshalRule makes of a list of specifications, as the kernel stores them.
Compiled(name, specs) ==
    [i \in 1..Len(specs) |->
        LET rule == marshalRule(cn.tableName, name, specs[i])
        IN [Exprs |-> rule.Exprs, UserData |-> rule.UserData]]

\* C2: whenever a Setup has been committed (and no Cleanup since), each monitored
\* chain holds exactly the rules compiled from that Setup's specifications for
\* its direction, and so never rules of two Setup calls.
C2_ReplaceSemantics ==
    hist.installed # Nil =>
        /\ HasChain(kernel, cn.inputChain)
        /\ HasChain(kernel, cn.outputChain)
        /\ OwnRules(cn.inputChain) = Compiled(cn.inputChain, hist.installed.Input)
        /\ OwnRules(cn.outputChain) = Compiled(cn.outputChain, hist.installed.Output)

\* Caller p's Cleanup returns in this step.
CleanupReturns(p) ==
    /\ call[p].op = "Cleanup"
    /\ call[p].pc \in { "cleanupTable", "cleanupFlush" }
    /\ call'[p].pc = "idle"

\* C3: a Cleanup whose lookup finds no table returns success and changes neither
\* the kernel nor the staged operations, and a Cleanup that follows a successful
\* Cleanup returns success too (lookups and commits that reach the kernel).
C3_IdempotentCleanup ==
    [][\A p \in Procs :
          (CleanupReturns(p) /\ ~ret'[p].fault) =>
              /\ ~kernel.table =>
                    /\ ret'[p].err = NoErr
                    /\ kernel' = kernel
                    /\ messages' = messages
              /\ (ret[p].op = "Cleanup" /\ ret[p].err = NoErr) => ret'[p].err = NoErr]_vars

\* A Cleanup deleted the table a Setup had installed, and the Cleanup called
\* next found no table and returned success.
C3_Witness ==
    /\ ret["p1"].op = "Cleanup" /\ ret["p1"].err = NoErr /\ ~ret["p1"].fault
    /\ ret["p1"].prevOp = "Cleanup" /\ ret["p1"].prevErr = NoErr
    /\ ret["p1"].epochOut > 1
    /\ ~kernel.table

\* C4: once a Cleanup has succeeded, and until a Setup succeeds, the table with
\* its chains and rules does not exist and every ListRules fails, with
\* table-not-found when its lookup reached the kernel; a Setup whose round trips
\* reach the kernel succeeds whatever the state it is called in; and once a Setup
\* has succeeded a ListRules succeeds (its round trips reaching the kernel, and
\* no rule of another program in the chains).
C4_Lifecycle ==
    /\ hist.lifecycle = "torn-down" => kernel = NoKernel
    /\ \A p \in Procs :
          /\ (ret[p].op = "ListRules" /\ ret[p].lifecycle = "torn-down") =>
                /\ ret[p].err # NoErr
                /\ ret[p].input = << >> /\ ret[p].output = << >>
                /\ ~ret[p].fault => ret[p].err = Err("get table", ENOENT)
          /\ (ret[p].op = "Setup" /\ ~ret[p].fault) =>
                /\ ret[p].lifecycle \in { "uninitialized", "ready", "torn-down" }
                /\ ret[p].err = NoErr
          /\ (ret[p].op = "ListRules" /\ ret[p].lifecycle = "ready"
                 /\ ~ret[p].fault /\ ~ret[p].foreign) => ret[p].err = NoErr

\* A Setup installed the table, a Cleanup deleted it, and the ListRules called
\* next failed with table-not-found.
C4_Witness ==
    /\ ret["p1"].op = "ListRules" /\ ret["p1"].lifecycle = "torn-down"
    /\ ret["p1"].err = Err("get table", ENOENT)
    /\ ret["p1"].prevOp = "Cleanup" /\ ret["p1"].prevErr = NoErr
    /\ ret["p1"].epochOut = 2

\* Caller p holds the lock: it is between n.mu.Lock() and the deferred Unlock.
InCriticalSection(p) == call[p].pc \notin { "off", "idle", "lock" }

\* What a ListRules would return from kernel state k, counters as they are in k.
Snapshot(k) ==
    [Input |-> listRulesLoop(k.chains[cn.inputChain].Rules, cn.inputChain, << >>).specs,
     Output |-> listRulesLoop(k.chains[cn.outputChain].Rules, cn.outputChain, << >>).specs]

\* Caller p's ListRules returns success in this step.
ListRulesSucceeds(p) ==
    /\ call[p].pc = "listRulesOutput"
    /\ call'[p].pc = "idle"
    /\ ret'[p].err = NoErr

\* C5: with two concurrent callers of one Conn, at most one of Setup, ListRules
\* and Cleanup is between Lock and Unlock at any time, only the caller holding
\* the lock changes the kernel or the staged operations, and a successful
\* ListRules returns both lists from one committed kernel state: no commit falls
\* between its reading of the input chain and of the output chain.
C5_MutualExclusion ==
    [][/\ \A p, q \in Procs : (p # q /\ InCriticalSection(p)') => ~InCriticalSection(q)'
       /\ \A p \in Procs : InCriticalSection(p)' => mu' = p
       /\ (kernel' # kernel \/ messages' # messages) =>
              (mu # "" /\ call'[mu] # call[mu])
       /\ \A p \in Procs :
             ListRulesSucceeds(p) =>
                /\ ret'[p].epochIn = ret'[p].epochOut
                /\ ret'[p].input = Snapshot(kernel).Input
                /\ ret'[p].output = Snapshot(kernel).Output]_vars

\* A ListRules of one caller has returned the lists of the one set installed; the
\* Setup of the other caller, called while the lock was held, is still to take it.
C5_Witness ==
    /\ ret["p1"].op = "ListRules" /\ ret["p1"].err = NoErr
    /\ ret["p1"].epochOut = 1
    /\ ret["p1"].input # << >>
    /\ call["p2"].op = "Setup" /\ call["p2"].pc = "lock" /\ call["p2"].contended
    /\ mu = ""

\* Caller p's Setup takes a step.
SetupSteps(p) == call[p].op = "Setup" /\ InCriticalSection(p) /\ call'[p] # call[p]

\* C6: a Setup changes the kernel in one step only, its commit, which applies
\* every staged operation (table, both chains, all rules) as one batch; when the
\* commit fails Setup returns an error, the kernel is exactly as it was before
\* the call, rules of an earlier successful Setup included, and nothing of the
\* failed batch stays staged.
C6_AtomicCommit ==
    [][\A p \in Procs :
          SetupSteps(p) =>
             /\ call[p].pc # "flush" => (kernel' = kernel /\ hist' = hist)
             /\ call[p].pc = "flush" =>
                   \/ /\ ret'[p].err = NoErr
                      /\ ApplyBatch(kernel, messages).ok
                      /\ kernel' = ApplyBatch(kernel, messages).k
                      /\ messages' = << >>
                   \/ /\ ret'[p].err # NoErr /\ ret'[p].err.where = "flush"
                      /\ kernel' = kernel
                      /\ messages' = << >>
                      /\ hist' = hist]_vars

\* The commit of a Setup failed after an earlier Setup had installed its rules,
\* which are still installed.
C6_Witness ==
    /\ ret["p1"].op = "Setup" /\ ret["p1"].err = Err("flush", EIO)
    /\ ret["p1"].prevOp = "Setup" /\ ret["p1"].prevErr = NoErr
    /\ hist.installed # Nil /\ hist.installed.Input # << >>
    /\ ret["p1"].set # hist.installed
    /\ OwnRules(cn.inputChain) = Compiled(cn.inputChain, hist.installed.Input)
    /\ OwnRules(cn.outputChain) = Compiled(cn.outputChain, hist.installed.Output)

\* C7: a ListRules that meets a rule it cannot decode in either monitored chain
\* returns an error and no specification at all, whatever it had decoded before.
C7_FailFastListing ==
    \A p \in Procs :
       (ret[p].op = "ListRules" /\ ret[p].foreign) =>
           /\ ret[p].err # NoErr
           /\ ret[p].err.where = "unmarshalRule"
           /\ ret[p].input = << >>
           /\ ret[p].output = << >>

\* ListRules decoded the rules of the input chain, met the rule of another
\* program in the output chain, and returned an error and nothing else.
C7_Witness ==
    /\ ret["p1"].op = "ListRules" /\ ret["p1"].foreign /\ ~ret["p1"].fault
    /\ ret["p1"].err # NoErr
    /\ HasChain(kernel, cn.inputChain)
    /\ kernel.chains[cn.inputChain].Rules # << >>
    /\ ~HasForeign(kernel, cn.inputChain)
    /\ HasForeign(kernel, cn.outputChain)
    /\ call["p1"].pc = "idle" /\ ret["p1"].epochOut = hist.epoch

\* Packets and bytes of each rule of a chain as the kernel holds them.
KernelCounts(k, name) ==
    [i \in 1..Len(k.chains[name].Rules) |->
        LET exprs == k.chains[name].Rules[i].Exprs
            at == { j \in 1..Len(exprs) : exprs[j].type = "Counter" }
        IN IF at = { } THEN << 0, 0 >>
           ELSE LET j == CHOOSE j \in at : TRUE IN << exprs[j].Packets, exprs[j].Bytes >>]

\* Packets and bytes of each specification of a returned list.
ReturnedCounts(specs) == [i \in 1..Len(specs) |-> << specs[i].Packets, specs[i].Bytes >>]

AllZero(counts) == \A i \in 1..Len(counts) : counts[i] = << 0, 0 >>

\* Caller p's ListRules has read the input chain in this step and goes on.
ListRulesReadsInput(p) ==
    /\ call[p].pc = "listRulesInput"
    /\ call'[p].pc = "listRulesOutput"

\* C8: ListRules returns for each rule of a chain the packets and bytes the
\* kernel counted on it since its counter was last reset, and the read leaves
\* the counters of that chain at zero; a successful ListRules that follows a
\* successful ListRules, no packet having been counted since that one began to
\* read, returns packets = bytes = 0 for every rule.
C8_ReadAndClear ==
    [][\A p \in Procs :
          /\ ListRulesReadsInput(p) =>
                /\ ReturnedCounts(call'[p].inputRules) = KernelCounts(kernel, cn.inputChain)
                /\ AllZero(KernelCounts(kernel', cn.inputChain))
                /\ hist.quiet => AllZero(ReturnedCounts(call'[p].inputRules))
          /\ ListRulesSucceeds(p) =>
                /\ ret'[p].input = call[p].inputRules
                /\ ReturnedCounts(ret'[p].output) = KernelCounts(kernel, cn.outputChain)
                /\ AllZero(KernelCounts(kernel', cn.outputChain))
                /\ hist.quiet => (/\ AllZero(ReturnedCounts(ret'[p].input))
                                  /\ AllZero(ReturnedCounts(ret'[p].output)))]_vars

\* A ListRules returned the one packet counted on an input rule since the
\* ListRules before it, and the kernel's counters are at zero again.
C8_Witness ==
    /\ ret["p1"].op = "ListRules" /\ ret["p1"].err = NoErr
    /\ ret["p1"].prevOp = "ListRules" /\ ret["p1"].prevErr = NoErr
    /\ ret["p1"].input # << >>
    /\ ret["p1"].input[1].Packets = 1 /\ ret["p1"].input[1].Bytes = 3
    /\ AllZero(KernelCounts(kernel, cn.inputChain))
    /\ AllZero(KernelCounts(kernel, cn.outputChain))
    /\ call["p1"].pc = "idle"

\* The fields of a specification that its author declares.
Declared(s) == [s EXCEPT !.Dir = "", !.Packets = 0, !.Bytes = 0]

\* The returned list has the length of the installed one, element by element its
\* declared fields, and packets = bytes = 0.
SameAsInstalled(got, want) ==
    /\ Len(got) = Len(want)
    /\ \A i \in 1..Len(got) :
          /\ Declared(got[i]) = Declared(want[i])
          /\ got[i].Packets = 0
          /\ got[i].Bytes = 0

\* C9: a successful ListRules that follows a successful Setup(S), no packet
\* having been counted, returns for each direction a list of the length of S's
\* list whose i-th element has the declared fields of S's i-th specification and
\* packets = bytes = 0.
C9_OrderAndContent ==
    \A p \in Procs :
       (ret[p].op = "ListRules" /\ ret[p].err = NoErr /\ ret[p].set # Nil
            /\ used.traffic = 0) =>
           /\ SameAsInstalled(ret[p].input, ret[p].set.Input)
           /\ SameAsInstalled(ret[p].output, ret[p].set.Output)

\* C10: whatever the configured chain names, every specification ListRules
\* returns from the chain on the input hook has direction "input" and every one
\* from the chain on the output hook has direction "output".
C10_DirectionTagging ==
    \A p \in Procs :
       (ret[p].op = "ListRules" /\ ret[p].err = NoErr) =>
           /\ \A i \in 1..Len(ret[p].input) : ret[p].input[i].Dir = "input"
           /\ \A i \in 1..Len(ret[p].output) : ret[p].output[i].Dir = "output"

\* The chains of the table that are not the two configured ones.
OtherChains(k) == (DOMAIN k.chains) \ Monitored

\* C11: a Setup that finds the table stages no operation on the table itself,
\* and no step of a Setup, its commit included, removes the table or changes a
\* chain other than the two configured ones, or a rule of such a chain.
C11_TableReuse ==
    [][\A p \in Procs :
          (SetupSteps(p) /\ kernel.table) =>
             /\ kernel'.table
             /\ \A name \in OtherChains(kernel) :
                   /\ name \in DOMAIN kernel'.chains
                   /\ kernel'.chains[name] = kernel.chains[name]
             /\ (call[p].pc = "getOrCreateTable" /\ call'[p].pc = "setupChainInput") =>
                   messages' = messages]_vars

\* A Setup was committed in a table that was there before, and the other
\* program's chain and rule are in it as they were.
C11_Witness ==
    /\ ret["p1"].op = "Setup" /\ ret["p1"].err = NoErr
    /\ ret["p1"].lifecycle = "uninitialized"
    /\ hist.epoch = 1
    /\ "forward" \in DOMAIN kernel.chains
    /\ kernel.chains["forward"] = ForeignTable.chains["forward"]
    /\ HasChain(kernel, cn.inputChain) /\ kernel.chains[cn.inputChain].Rules # << >>

\* The lookups of Setup: the table, then each of the two chains.
SetupLookups == { "getOrCreateTable", "setupChainInput", "setupChainOutput" }

LookupStep(p) ==
    call[p].op = "Setup" /\ call[p].pc \in SetupLookups /\ call'[p] # call[p]

\* Whether the table or chain the caller is about to look up is in the kernel.
LookedUpPresent(p) ==
    CASE call[p].pc = "getOrCreateTable" -> kernel.table
      [] call[p].pc = "setupChainInput" -> HasChain(kernel, cn.inputChain)
      [] call[p].pc = "setupChainOutput" -> HasChain(kernel, cn.outputChain)

\* Whether msg creates the table or chain the caller is looking up.
CreatesLookedUp(p, msg) ==
    CASE call[p].pc = "getOrCreateTable" -> msg.op = "AddTable"
      [] call[p].pc = "setupChainInput" ->
            msg.op = "AddChain" /\ msg.chain.Name = cn.inputChain
      [] call[p].pc = "setupChainOutput" ->
            msg.op = "AddChain" /\ msg.chain.Name = cn.outputChain

\* C12: in Setup a lookup of the table or of a chain that answers not-found is
\* no error: Setup goes on and stages the creation of what was missing, with no
\* deletion before it.  A lookup that fails in any other way ends Setup in that
\* same step with an error: there is no second lookup, nothing more is staged,
\* and the kernel is not changed.
C12_NotFoundVsTransportError ==
    [][\A p \in Procs :
          LookupStep(p) =>
             LET failed == used'.faults # used.faults
                 added == { i \in 1..Len(messages') : i > Len(messages) }
             IN /\ kernel' = kernel
                /\ ~failed =>
                      /\ call'[p].pc \in { "setupChainInput", "setupChainOutput", "flush" }
                      /\ ret'[p] = ret[p]
                      /\ ~LookedUpPresent(p) =>
                            /\ \E i \in added : CreatesLookedUp(p, messages'[i])
                            /\ \A i \in added :
                                  messages'[i].op \notin { "FlushChain", "DelChain" }
                /\ failed =>
                      /\ call'[p].pc = "idle" /\ mu' = ""
                      /\ ret'[p].op = "Setup" /\ ret'[p].err # NoErr
                      /\ ret'[p].err.cause = EIO
                      /\ used'.faults = used.faults + 1
                      /\ messages' = messages
                      /\ hist' = hist]_vars

C12_Witness ==
    /\ ret["p1"].op = "Setup" /\ ret["p1"].prevOp = ""
    /\ ret["p1"].err = Err("getOrCreateChain", EIO)
    /\ kernel = NoKernel
    /\ Len(messages) >= 2
    /\ messages[1].op = "AddTable"
    /\ messages[2].op = "AddChain" /\ messages[2].chain.Name = cn.inputChain
    /\ \A i \in 1..Len(messages) : messages[i].op # "AddChain" \/ i = 2

\* A specification has been compiled: crule is the rule marshalRule returned.
HasRule == cpc \in { "rule", "decoded" } /\ crule # Nil

\* The positions in the compiled rule of a load of len bytes at offset of base.
Loads(base, offset, len) ==
    { i \in DOMAIN crule.Exprs :
         /\ crule.Exprs[i].type = "Payload"
         /\ crule.Exprs[i].Base = base
         /\ crule.Exprs[i].Offset = offset
         /\ crule.Exprs[i].Len = len }

\* The expression after position i compares for equality with data.
ComparedWith(i, data) ==
    /\ i + 1 \in DOMAIN crule.Exprs
    /\ crule.Exprs[i + 1].type = "Cmp"
    /\ crule.Exprs[i + 1].Op = CmpOpEq
    /\ crule.Exprs[i + 1].Data = data

\* The loads of two bytes of the transport header: the port predicates.
PortLoads ==
    { i \in DOMAIN crule.Exprs :
         /\ crule.Exprs[i].type = "Payload"
         /\ crule.Exprs[i].Base = PayloadBaseTransportHeader
         /\ crule.Exprs[i].Len = 2 }

PortApplies(s) == s.Protocol = ProtocolTCP \/ s.Protocol = ProtocolUDP

\* C13: compiling always gives a rule; it holds a source-port predicate (two
\* bytes at transport offset 0 compared with the port, big-endian) exactly when
\* the source port is nonzero and the protocol is TCP or UDP, a destination-port
\* predicate (offset 2) exactly when the destination port is nonzero and the
\* protocol is TCP or UDP, and no other port expression.
C13_PortGating ==
    cpc \in { "rule", "decoded" } =>
        /\ crule # Nil
        /\ (Loads(PayloadBaseTransportHeader, 0, 2) # {})
              <=> (cspec.SrcPort # 0 /\ PortApplies(cspec))
        /\ (Loads(PayloadBaseTransportHeader, 2, 2) # {})
              <=> (cspec.DstPort # 0 /\ PortApplies(cspec))
        /\ \A i \in Loads(PayloadBaseTransportHeader, 0, 2) :
              ComparedWith(i, << cspec.SrcPort \div 256, cspec.SrcPort % 256 >>)
        /\ \A i \in Loads(PayloadBaseTransportHeader, 2, 2) :
              ComparedWith(i, << cspec.DstPort \div 256, cspec.DstPort % 256 >>)
        /\ PortLoads = Loads(PayloadBaseTransportHeader, 0, 2)
                          \cup Loads(PayloadBaseTransportHeader, 2, 2)

\* An ICMP specification with both ports set has compiled to a rule that has
\* its protocol predicate and no port expression.
C13_Witness ==
    /\ HasRule
    /\ cspec.Protocol = ProtocolICMP
    /\ cspec.SrcPort # 0 /\ cspec.DstPort # 0
    /\ PortLoads = {}
    /\ \E i \in DOMAIN crule.Exprs : crule.Exprs[i].type = "Meta"

\* The loads from the network header: the address predicates.
AddrLoads ==
    { i \in DOMAIN crule.Exprs :
         crule.Exprs[i].type = "Payload" /\ crule.Exprs[i].Base = PayloadBaseNetworkHeader }

\* The one load of len bytes at offset of the network header is followed by a
\* comparison with the len raw bytes of addr.
AddrPredicate(offset, len, addr) ==
    /\ Cardinality(Loads(PayloadBaseNetworkHeader, offset, len)) = 1
    /\ Len(addr.b) = len
    /\ \A i \in Loads(PayloadBaseNetworkHeader, offset, len) : ComparedWith(i, addr.b)

\* C14: a set source address compiles to a network-header load of 4 bytes at
\* offset 12 (IPv4) or of 16 bytes at offset 8 (IPv6), a set destination address
\* to one of 4 bytes at offset 16 (IPv4) or of 16 bytes at offset 24 (IPv6), each
\* followed by a comparison with the raw bytes of the address, of that length;
\* the rule has no other load from the network header.
C14_FamilyOffsets ==
    HasRule =>
        /\ cspec.SrcAddr.z = "v4" => AddrPredicate(12, 4, cspec.SrcAddr)
        /\ cspec.SrcAddr.z = "v6" => AddrPredicate(8, 16, cspec.SrcAddr)
        /\ cspec.DstAddr.z = "v4" => AddrPredicate(16, 4, cspec.DstAddr)
        /\ cspec.DstAddr.z = "v6" => AddrPredicate(24, 16, cspec.DstAddr)
        /\ Cardinality(AddrLoads) =
              (IF IsValid(cspec.SrcAddr) THEN 1 ELSE 0) + (IF IsValid(cspec.DstAddr) THEN 1 ELSE 0)

\* A rule compiled from an IPv4 source and an IPv6 destination.
C14_Witness ==
    /\ HasRule
    /\ cspec.SrcAddr = Addr4 /\ cspec.DstAddr = Addr6
    /\ Loads(PayloadBaseNetworkHeader, 12, 4) = { 1 }
    /\ Loads(PayloadBaseNetworkHeader, 24, 16) = { 3 }

\* The loads of the TCP flags byte (transport header, offset 13, one byte).
FlagLoads == Loads(PayloadBaseTransportHeader, 13, 1)

\* The load at i is followed by a Bitwise and then by an equality comparison.
FlagPredicateAt(i) ==
    /\ i + 2 \in DOMAIN crule.Exprs
    /\ crule.Exprs[i + 1].type = "Bitwise"
    /\ Len(crule.Exprs[i + 1].Mask) = 1 /\ Len(crule.Exprs[i + 1].Xor) = 1
    /\ crule.Exprs[i + 2].type = "Cmp"
    /\ crule.Exprs[i + 2].Op = CmpOpEq
    /\ Len(crule.Exprs[i + 2].Data) = 1

FlagMask(i) == crule.Exprs[i + 1].Mask[1]
FlagXor(i) == crule.Exprs[i + 1].Xor[1]
FlagTarget(i) == crule.Exprs[i + 2].Data[1]

\* The bits FIN, SYN, RST and ACK, and no other.
MaskFinSynRstAck == 1 + 2 + 4 + 16

PshOnly == cspec.Protocol = ProtocolTCP /\ cspec.TcpFlags = << TcpFlagPSH >>

\* C15: the rule compiled from a TCP specification that requests only PSH
\* compares with a target that has the PSH bit, after a mask of FIN, SYN, RST and
\* ACK only, and decoding that rule does not report PSH among the flags.
C15_FlagMaskBoundary ==
    (HasRule /\ PshOnly) =>
        /\ Cardinality(FlagLoads) = 1
        /\ \A i \in FlagLoads :
              /\ FlagPredicateAt(i)
              /\ BitAnd(FlagTarget(i), TcpFlagPSH) # 0
              /\ FlagMask(i) = MaskFinSynRstAck
        /\ cpc = "decoded" => TcpFlagPSH \notin Range(cdec.counter.TcpFlags)

\* C15 as the code has it: the target has the PSH bit, the mask is FIN, SYN, RST
\* and ACK only, and decoding the rule succeeds and reports PSH, and PSH alone:
\* the flags are read from the comparison target, whatever the mask.
C15_FlagMaskBoundaryDecoded ==
    (HasRule /\ PshOnly) =>
        /\ Cardinality(FlagLoads) = 1
        /\ \A i \in FlagLoads :
              /\ FlagPredicateAt(i)
              /\ BitAnd(FlagTarget(i), TcpFlagPSH) # 0
              /\ FlagMask(i) = MaskFinSynRstAck
        /\ cpc = "decoded" =>
              /\ cdec.err = ""
              /\ cdec.counter.TcpFlags = << TcpFlagPSH >>

\* A PSH-only rule has been compiled and decoded.
C15_Witness ==
    /\ cpc = "decoded"
    /\ PshOnly
    /\ FlagLoads # {}
    /\ cdec.err = ""
    /\ TcpFlagPSH \in Range(cdec.counter.TcpFlags)

\* Exclusive or of two bytes.
RECURSIVE BitXor(_, _)
BitXor(a, b) ==
    IF a = 0 THEN b
    ELSE IF b = 0 THEN a
    ELSE ((a + b) % 2) + 2 * BitXor(a \div 2, b \div 2)

FlagBytes == 0..255

\* Whether a packet whose TCP flags byte is b passes the flags predicate at i:
\* the byte loaded, masked and xor-ed equals the target.
FlagsMatch(i, b) == BitXor(BitAnd(b, FlagMask(i)), FlagXor(i)) = FlagTarget(i)

Unmasked == { TcpFlagPSH, TcpFlagURG, TcpFlagECE, TcpFlagCWR }

\* C16: every TCP specification with flags compiles to one flags predicate whose
\* mask is 0x17 (FIN|SYN|RST|ACK) and whose xor is 0, whatever the flags, and
\* whose target has exactly the bits of the requested flags; when one of PSH, URG,
\* ECE, CWR is requested no value of a packet's flags byte passes it (and when
\* none is, the byte equal to the target does).
C16_FixedMask ==
    (HasRule /\ cspec.Protocol = ProtocolTCP /\ cspec.TcpFlags # << >>) =>
        /\ Cardinality(FlagLoads) = 1
        /\ \A i \in FlagLoads :
              /\ FlagPredicateAt(i)
              /\ FlagMask(i) = 23
              /\ FlagXor(i) = 0
              /\ FlagTarget(i) \in FlagBytes
              /\ \A f \in Range(TcpFlagOrder) :
                    (BitAnd(FlagTarget(i), f) # 0) <=> (f \in Range(cspec.TcpFlags))
              /\ (Range(cspec.TcpFlags) \cap Unmasked # {}) =>
                    \A b \in FlagBytes : ~FlagsMatch(i, b)
              /\ (Range(cspec.TcpFlags) \cap Unmasked = {}) =>
                    FlagsMatch(i, FlagTarget(i))

\* A rule compiled from a request for FIN, PSH and URG, which no packet passes,
\* not even one with exactly these flags.
C16_Witness ==
    /\ HasRule
    /\ cspec.Protocol = ProtocolTCP
    /\ cspec.TcpFlags = << TcpFlagFIN, TcpFlagPSH, TcpFlagURG >>
    /\ \E i \in FlagLoads :
          /\ FlagTarget(i) = 41
          /\ ~FlagsMatch(i, 41)

\* The Config New works on: the zero Config when it is handed none.
Given == IF cfg = Nil THEN ZeroConfig ELSE cfg

\* C17: the Conn that New builds has, for each field of the Config left at its
\* zero value (or for every field when there is no Config), family IPv4, table
\* "flowmon", input chain "input", output chain "output", priority -300, and for
\* each other field the value given.
C17_ConfigDefaults ==
    cn # Nil =>
        /\ Given.TableFamily = 0 => cn.tableFamily = TableFamilyIPv4
        /\ Given.TableName = "" => cn.tableName = "flowmon"
        /\ Given.InputChain = "" => cn.inputChain = "input"
        /\ Given.OutputChain = "" => cn.outputChain = "output"
        /\ Given.ChainPriority = 0 => cn.chainPriority = -300
        /\ Given.TableFamily # 0 => cn.tableFamily = Given.TableFamily
        /\ Given.TableName # "" => cn.tableName = Given.TableName
        /\ Given.InputChain # "" => cn.inputChain = Given.InputChain
        /\ Given.OutputChain # "" => cn.outputChain = Given.OutputChain
        /\ Given.ChainPriority # 0 => cn.chainPriority = Given.ChainPriority

\* A Conn built from a Config that sets the family and the input chain and
\* leaves the table name, the output chain and the priority unset.
C17_Witness ==
    /\ cn # Nil /\ cfg # Nil
    /\ cfg.TableFamily = TableFamilyIPv6 /\ cfg.InputChain = "in0"
    /\ cfg.TableName = "" /\ cfg.OutputChain = "" /\ cfg.ChainPriority = 0
    /\ cn = [tableFamily |-> TableFamilyIPv6, tableName |-> "flowmon", inputChain |-> "in0",
             outputChain |-> "output", chainPriority |-> -300]

\* The positions of the expressions of one type in the compiled rule.
OfType(type) == { i \in DOMAIN crule.Exprs : crule.Exprs[i].type = type }

\* C18: a compiled rule has exactly one Counter expression, it is the last
\* expression of the rule, and its packets and bytes are 0, whatever counts the
\* specification carried.
C18_CounterPosition ==
    HasRule =>
        /\ Cardinality(OfType("Counter")) = 1
        /\ OfType("Counter") = { Len(crule.Exprs) }
        /\ crule.Exprs[Len(crule.Exprs)].Packets = 0
        /\ crule.Exprs[Len(crule.Exprs)].Bytes = 0

\* A rule compiled from a specification that carried counts read back earlier,
\* with predicates before its Counter.
C18_Witness ==
    /\ HasRule
    /\ cspec.Packets # 0 /\ cspec.Bytes # 0
    /\ Len(crule.Exprs) > 2
    /\ crule.Exprs[Len(crule.Exprs)] = [type |-> "Counter", Packets |-> 0, Bytes |-> 0]

\* The expressions that load the register: Meta and Payload.
LoadsOfRegister == OfType("Meta") \cup OfType("Payload")

\* C19: in a compiled rule every Meta, Payload, Bitwise and Cmp names register 1
\* and no other; every Cmp has a Meta or Payload before it with nothing between
\* the two but a Bitwise, so no other load and no other Cmp; and between two
\* loads there is always a Cmp: no load is made while another awaits its Cmp.
C19_RegisterDiscipline ==
    HasRule =>
        /\ \A i \in OfType("Meta") : crule.Exprs[i].Register = 1
        /\ \A i \in OfType("Payload") : crule.Exprs[i].DestRegister = 1
        /\ \A i \in OfType("Bitwise") :
              crule.Exprs[i].DestRegister = 1 /\ crule.Exprs[i].SourceRegister = 1
        /\ \A j \in OfType("Cmp") :
              /\ crule.Exprs[j].Register = 1
              /\ \E i \in LoadsOfRegister :
                    /\ i < j
                    /\ \A k \in DOMAIN crule.Exprs :
                          (i < k /\ k < j) => crule.Exprs[k].type = "Bitwise"
        /\ \A i, k \in LoadsOfRegister :
              i < k => \E j \in OfType("Cmp") : i < j /\ j < k

\* A rule with six loads (two addresses, protocol, two ports, flags), each
\* followed by its Cmp.
C19_Witness ==
    /\ HasRule
    /\ Cardinality(LoadsOfRegister) = 6
    /\ Cardinality(OfType("Cmp")) = 6
    /\ Cardinality(OfType("Bitwise")) = 1

\* The place of the expression at i in the fixed order of predicates: 1 source
\* address, 2 destination address, 3 protocol, 4 source port, 5 destination
\* port, 6 TCP flags, 7 Counter; 0 for an expression that opens no predicate.
Rank(i) ==
    LET e == crule.Exprs[i]
    IN CASE e.type = "Payload" /\ e.Base = PayloadBaseNetworkHeader /\ e.Offset \in { 12, 8 } -> 1
         [] e.type = "Payload" /\ e.Base = PayloadBaseNetworkHeader /\ e.Offset \in { 16, 24 } -> 2
         [] e.type = "Meta" /\ e.Key = MetaKeyL4PROTO -> 3
         [] e.type = "Payload" /\ e.Base = PayloadBaseTransportHeader /\ e.Offset = 0 -> 4
         [] e.type = "Payload" /\ e.Base = PayloadBaseTransportHeader /\ e.Offset = 2 -> 5
         [] e.type = "Payload" /\ e.Base = PayloadBaseTransportHeader /\ e.Offset = 13 -> 6
         [] e.type = "Counter" -> 7
         [] OTHER -> 0

Openers == { i \in DOMAIN crule.Exprs : Rank(i) # 0 }

\* The number of expressions of the predicate that opens at i.
Width(i) == CASE Rank(i) = 6 -> 3 [] Rank(i) = 7 -> 1 [] OTHER -> 2

\* C20: a compiled rule is a sequence of predicates in the order source address,
\* destination address, protocol, source port, destination port, TCP flags,
\* Counter, each at most once: every load and the Counter opens a predicate;
\* a load is followed at once by its Cmp, except the flags load, which is
\* followed by the Bitwise and then the Cmp; the next predicate starts right
\* after, and the rule has no Bitwise elsewhere and no other expression.
C20_PredicateOrder ==
    HasRule =>
        /\ LoadsOfRegister \cup OfType("Counter") = Openers
        /\ 1 \in Openers
        /\ \A i, k \in Openers : i < k => Rank(i) < Rank(k)
        /\ \A i \in Openers :
              /\ i + Width(i) - 1 \in DOMAIN crule.Exprs
              /\ Rank(i) \in 1..5 => crule.Exprs[i + 1].type = "Cmp"
              /\ Rank(i) = 6 =>
                    crule.Exprs[i + 1].type = "Bitwise" /\ crule.Exprs[i + 2].type = "Cmp"
              /\ Rank(i) # 7 => i + Width(i) \in Openers
              /\ Rank(i) = 7 => i = Len(crule.Exprs)

\* A rule with all seven predicates, fourteen expressions.
C20_Witness ==
    /\ HasRule
    /\ { Rank(i) : i \in Openers } = 1..7
    /\ Len(crule.Exprs) = 14
    /\ Rank(1) = 1 /\ Rank(3) = 2 /\ Rank(5) = 3 /\ Rank(7) = 4 /\ Rank(9) = 5
    /\ Rank(11) = 6 /\ Rank(14) = 7

\* A rule has been handed to unmarshalRule and cdec is what it returned.
Decoded == cpc = "decoded"

\* Whether an expression before position j loads register reg.
TaggedBefore(j, reg) ==
    \E i \in 1..(j - 1) :
       \/ crule.Exprs[i].type = "Meta" /\ crule.Exprs[i].Register = reg
       \/ crule.Exprs[i].type = "Payload" /\ crule.Exprs[i].DestRegister = reg

UntaggedCmps ==
    { j \in DOMAIN crule.Exprs :
         crule.Exprs[j].type = "Cmp" /\ ~TaggedBefore(j, crule.Exprs[j].Register) }

UntaggedBitwises ==
    { j \in DOMAIN crule.Exprs :
         crule.Exprs[j].type = "Bitwise" /\ ~TaggedBefore(j, crule.Exprs[j].SourceRegister) }

\* unmarshalRule returned an error and no specification.
Rejected == cdec.err # "" /\ cdec.counter = Nil

\* C21: decoding a rule fails, and gives no specification, whenever a Cmp or a
\* Bitwise of the rule names a register that no earlier Meta or Payload of the
\* rule loaded.
C21_UntaggedRegister ==
    (Decoded /\ (UntaggedCmps # {} \/ UntaggedBitwises # {})) => Rejected

\* C21 for Cmp alone: decoding a rule fails, and gives no specification,
\* whenever a Cmp of the rule names a register that no earlier Meta or Payload
\* of the rule loaded; a Bitwise is passed over whatever register it names, so
\* a rule whose only fault is such a Bitwise decodes.
C21_UntaggedCmp ==
    /\ (Decoded /\ UntaggedCmps # {}) => Rejected
    /\ (Decoded /\ UntaggedBitwises # {}
           /\ (\A i \in DOMAIN crule.Exprs : crule.Exprs[i].type \in { "Bitwise", "Counter" })
           /\ (\E i \in DOMAIN crule.Exprs : crule.Exprs[i].type = "Counter")
           /\ userdataGet(crule.UserData, TypeComment).ok) => cdec.err = ""

\* A rule that loads register 1 and compares register 2 has been rejected for
\* its unknown register.
C21_Witness ==
    /\ Decoded
    /\ Len(crule.Exprs) = 3
    /\ crule.Exprs[1] = Meta(MetaKeyL4PROTO, 1)
    /\ crule.Exprs[2] = Cmp(CmpOpEq, 2, << ProtocolTCP >>)
    /\ crule.Exprs[3] = Counter(5, 7)
    /\ cdec.err = "unknown register"

\* The Counter expressions of the rule handed to unmarshalRule.
Counters == { i \in DOMAIN crule.Exprs : crule.Exprs[i].type = "Counter" }

\* The rule's user data has a comment entry, which is where the label is kept.
CarriesLabel == userdataGet(crule.UserData, TypeComment).ok

\* C22: unmarshalRule returns a specification only for a rule in which it saw a
\* Counter expression and which carries a label (a comment in its user data);
\* for a rule with no Counter expression, or with no label, it returns an error
\* and no specification.
C22_CounterAndLabelRequired ==
    Decoded =>
        /\ (cdec.counter # Nil \/ cdec.err = "") => (Counters # {} /\ CarriesLabel)
        /\ (Counters = {} \/ ~CarriesLabel) => Rejected
        /\ (cdec.counter # Nil) <=> (cdec.err = "")

\* A rule whose expressions all decode and which has a comment, but no Counter,
\* has been rejected for that.
C22_Witness ==
    /\ Decoded
    /\ crule.Exprs = << Meta(MetaKeyL4PROTO, 1), Cmp(CmpOpEq, 1, << ProtocolTCP >>) >>
    /\ CarriesLabel
    /\ cdec = [counter |-> Nil, err |-> "rule has no counter"]

\* Every expression of the rule passes unmarshalExpr.
ExprsDecode ==
    unmarshalExprs([counter |-> ZeroCounter, regs |-> << >>,
                    hasCounterExpr |-> FALSE, err |-> ""], crule.Exprs).err = ""

\* The label the rule carries (empty when it carries none).
LabelOf == userdataGetString(crule.UserData, TypeComment).value

\* C23: a rule whose expressions all decode is accepted by unmarshalRule if and
\* only if it has exactly one Counter expression and its label is not empty; a
\* rule with an empty label, and a rule with two Counter expressions, are
\* rejected.
C23_Recognition ==
    (Decoded /\ ExprsDecode) =>
        ((cdec.err = "") <=> (Cardinality(Counters) = 1 /\ CarriesLabel /\ LabelOf # << >>))

\* C23 as the code has it: a rule is accepted by unmarshalRule if and only if
\* its expressions all decode, it has at least one Counter expression and it
\* carries a label, empty or not; so a rule with an empty label is accepted, with
\* that label, and so is a rule with several Counter expressions, with the
\* counts of the last.
C23_RecognitionAtLeastOne ==
    Decoded =>
        /\ (cdec.err = "") <=> (ExprsDecode /\ Counters # {} /\ CarriesLabel)
        /\ cdec.err = "" =>
              /\ cdec.counter.Label = LabelOf
              /\ \A i \in Counters :
                    (\A k \in Counters : k <= i) =>
                       /\ cdec.counter.Packets = crule.Exprs[i].Packets
                       /\ cdec.counter.Bytes = crule.Exprs[i].Bytes

\* A rule with two Counter expressions and an empty label has been accepted.
C23_Witness ==
    /\ Decoded
    /\ Cardinality(Counters) = 2
    /\ CarriesLabel /\ LabelOf = << >>
    /\ cdec.err = ""
    /\ cdec.counter.Label = << >>

\* The last expression before position j that loads register reg (0 if none).
LastLoad(j, reg) ==
    LET before == { i \in 1..(j - 1) :
                       \/ crule.Exprs[i].type = "Meta" /\ crule.Exprs[i].Register = reg
                       \/ crule.Exprs[i].type = "Payload" /\ crule.Exprs[i].DestRegister = reg }
    IN IF before = {} THEN 0 ELSE CHOOSE i \in before : \A k \in before : k <= i

\* The widths, in bytes, of the field that the load e extracts: 1 for the
\* protocol and the TCP flags, 2 for a port, 4 or 16 for an address.
FieldWidths(e) ==
    CASE e.type = "Meta" -> { 1 }
      [] e.type = "Payload" /\ e.Base = PayloadBaseTransportHeader /\ e.Len = 1 -> { 1 }
      [] e.type = "Payload" /\ e.Base = PayloadBaseTransportHeader /\ e.Len = 2 -> { 2 }
      [] e.type = "Payload" /\ e.Base = PayloadBaseNetworkHeader -> { 4, 16 }
      [] OTHER -> { }

\* The Cmp expressions whose data is not as wide as the field last loaded into
\* their register.
WrongWidthCmps ==
    { j \in DOMAIN crule.Exprs :
         /\ crule.Exprs[j].type = "Cmp"
         /\ LastLoad(j, crule.Exprs[j].Register) # 0
         /\ Len(crule.Exprs[j].Data)
               \notin FieldWidths(crule.Exprs[LastLoad(j, crule.Exprs[j].Register)]) }

\* C24: decoding a rule fails, and gives no specification, whenever a Cmp of the
\* rule has data whose length is not the width of the field loaded into its
\* register: 1 byte for the protocol and the TCP flags, 2 bytes for a port, 4 or
\* 16 bytes for an address.
C24_FieldWidth ==
    (Decoded /\ WrongWidthCmps # {}) => Rejected

\* A rule that loads the source port and compares it with one byte has been
\* rejected for the length.
C24_Witness ==
    /\ Decoded
    /\ crule.Exprs = << Payload(1, PayloadBaseTransportHeader, 0, 2),
                        Cmp(CmpOpEq, 1, << ProtocolTCP >>), Counter(5, 7) >>
    /\ CarriesLabel
    /\ WrongWidthCmps = { 2 }
    /\ cdec = [counter |-> Nil, err |-> "invalid port length"]

\* The specifications that differ from s at most in label, direction, packets
\* and bytes.
SameMatch(s) ==
    { [s EXCEPT !.Label = l, !.Dir = rb.Dir, !.Packets = rb.Packets, !.Bytes = rb.Bytes] :
         l \in Labels, rb \in ReadBack }

\* C25: the expressions of a compiled rule are those compiled from every
\* specification with the same addresses, protocol, ports and flags, whatever
\* its label, direction, packets and bytes; the label is in the rule's user
\* data, as its comment, and the user data holds nothing else.
C25_CompileIndependence ==
    HasRule =>
        /\ \A s \in SameMatch(cspec) :
              marshalRule(cn.tableName, cn.inputChain, s).Exprs = crule.Exprs
        /\ crule.UserData = << TypeComment, Len(cspec.Label) + 1 >> \o cspec.Label \o << 0 >>
        /\ \A s \in SameMatch(cspec) :
              s.Label = cspec.Label =>
                 marshalRule(cn.tableName, cn.inputChain, s).UserData = crule.UserData

\* A rule compiled from a labelled specification that carries a direction and
\* counts; an unlabelled one with neither compiles to the same expressions.
C25_Witness ==
    /\ HasRule
    /\ cspec.Label # << >> /\ cspec.Dir # "" /\ cspec.Packets # 0 /\ cspec.Bytes # 0
    /\ Len(crule.Exprs) > 1
    /\ [cspec EXCEPT !.Label = << >>, !.Dir = "", !.Packets = 0, !.Bytes = 0] \in SameMatch(cspec)
    /\ crule.Exprs =
          marshalRule(cn.tableName, cn.inputChain,
                      [cspec EXCEPT !.Label = << >>, !.Dir = "", !.Packets = 0, !.Bytes = 0]).Exprs

\* C26: Cleanup is called only once the periodic reader has stopped, no
\* ListRules call starts after Cleanup has been called, and a Shutdown that has
\* returned has called Cleanup.
C26_ShutdownOrdering ==
    /\ dm.cleanupInvoked => dm.reader # "on"
    /\ ~dm.lateList
    /\ dm.pc = "done" => dm.cleanupInvoked

\* C27: once a Setup has returned an error and the Conn is unlocked, nothing is
\* staged on the connection, and a Setup or Cleanup that has come to its commit
\* found nothing staged when it began: it commits the operations it staged
\* itself and no others.
C27_NoLeakedStagedOperations ==
    \A p \in Procs :
       /\ (ret[p].op = "Setup" /\ ret[p].err # NoErr /\ mu = "") => messages = << >>
       /\ call[p].pc \in { "flush", "cleanupFlush" } => call[p].staged = 0


\* Caller p's ListRules returns an error in this step.
ListRulesFails(p) ==
    /\ call[p].op = "ListRules"
    /\ call[p].pc \in { "listRulesInput", "listRulesOutput" }
    /\ call'[p].pc = "idle"
    /\ ret'[p].err # NoErr

\* C28: a ListRules that returns an error has reset no kernel counter: the step
\* in which it fails leaves the kernel as it was, and when it fails at the
\* output chain, the counts it had read from the input chain, which it drops,
\* were all zero.
C28_NoCountsLostOnFailedPoll ==
    [][\A p \in Procs :
          ListRulesFails(p) =>
             /\ kernel' = kernel
             /\ call[p].pc = "listRulesOutput" =>
                   AllZero(ReturnedCounts(call[p].inputRules))]_vars


\* What caller p's ListRules has read from the input chain and not yet returned.
InFlight(p) ==
    IF call[p].pc = "listRulesOutput" THEN SpecCounts(call[p].inputRules)
    ELSE [i \in 1..Len(hist.tally.matched.input) |-> << 0, 0 >>]

\* C29: from a successful Setup on, while no Setup or Cleanup commits and no
\* ListRules fails, the packets and bytes the successful ListRules calls have
\* returned for a rule, summed over the calls, are the packets and bytes the
\* rule has matched, less those its kernel counter holds for the next call (and,
\* during a call, those the call has read and not yet returned): each matched
\* packet is returned by exactly one call.
C29_CountConservation ==
    hist.tally.st = "live" =>
       /\ hist.tally.matched.input =
             AddCounts(AddCounts(hist.tally.reported.input,
                                 ChainCounts(kernel, cn.inputChain)), InFlight("p1"))
       /\ hist.tally.matched.output =
             AddCounts(hist.tally.reported.output, ChainCounts(kernel, cn.outputChain))

\* Two successful ListRules after a Setup, a packet counted before each: the
\* two calls have returned two packets and six bytes for the first input rule,
\* one packet each, and its kernel counter is at zero.
C29_Witness ==
    /\ hist.tally.st = "live"
    /\ call["p1"].pc = "idle"
    /\ ret["p1"].op = "ListRules" /\ ret["p1"].err = NoErr
    /\ ret["p1"].prevOp = "ListRules" /\ ret["p1"].prevErr = NoErr
    /\ ret["p1"].input # << >>
    /\ ret["p1"].input[1].Packets = 1
    /\ hist.tally.reported.input[1] = << 2, 6 >>
    /\ hist.tally.matched.input[1] = << 2, 6 >>


\* C30: compile followed by decode is idempotent.  For every specification s,
\* with ports on ICMP or on no protocol, flags on a protocol other than TCP,
\* flags in any order or given twice: compile(s) decodes, to n(s); compile(n(s))
\* has the expressions and the user data (the label) of compile(s); and it
\* decodes to n(s) again.
C30_NormalisationIdempotent ==
    /\ (cpc = "decoded" /\ cprev = Nil) => cdec.err = ""
    /\ (cpc \in { "rule", "decoded" } /\ cprev # Nil) =>
          /\ crule.Exprs = cprev.rule.Exprs
          /\ crule.UserData = cprev.rule.UserData
    /\ (cpc = "decoded" /\ cprev # Nil) =>
          /\ cdec.err = ""
          /\ cdec.counter = cprev.dec.counter
          /\ cdec.counter = cspec

\* The second round of a specification that normalisation changed: SYN given
\* twice on UDP with a port and read-back counts, decoded to a Counter without
\* flags, direction or counts, and decoded to that Counter again.
C30_Witness ==
    /\ cpc = "decoded" /\ cprev # Nil
    /\ cprev.spec.TcpFlags = << TcpFlagSYN, TcpFlagSYN >>
    /\ cprev.spec.Protocol = ProtocolUDP
    /\ cprev.spec.SrcPort = 8080
    /\ cprev.spec.Packets = 5
    /\ cspec # cprev.spec
    /\ cdec.counter = cspec
    /\ cspec.TcpFlags = << >>

====
